---- MODULE Spec2Model ----
(***************************************************************************)
(* Sidecar listener synthesis of pilot/pkg/networking/core/v1alpha3        *)
(* (listener.go): the inbound stage, the outbound stage with its           *)
(* bind:port conflict registry (listenerMap), the HTTP-proxy listener and  *)
(* the management listeners, for one proxy.                                *)
(*                                                                         *)
(* One behaviour is one call of buildSidecarListeners: each iteration of   *)
(* the loops over service instances, egress listeners, services and        *)
(* service ports is one step.  Resynthesize is a second call of            *)
(* buildSidecarOutboundListeners against the same snapshot.                *)
(***************************************************************************)
EXTENDS Integers, Sequences, FiniteSets, TLC

(***************************************************************************)
(* Bounds of the exploration.                                              *)
(***************************************************************************)
MaxInbound == 2
MaxRules == 1
MaxUnits == 2
MaxChains == 3
MaxListeners == 2
MaxMgmtPorts == 2
MaxIPs == 2
MaxPorts == 2
MaxTime == 6
MaxEvents == 3
MaxLag == 0
MaxPushes == 2
MaxTicks == 1
MaxCalls == 2
MaxQueued == 3
PushThrottle == 2

(***************************************************************************)
(* Program constants.                                                      *)
(***************************************************************************)
WildcardAddress == "0.0.0.0"
WildcardIPv6Address == "::"
LocalhostAddress == "127.0.0.1"
LocalhostIPv6Address == "::1"
UnspecifiedIP == "0.0.0.0"
DefaultPortHTTPProxy == 15002
RDSHttpProxy == "http_proxy"
PrivilegedPortMax == 1024
PushChannelSize == 10

(***************************************************************************)
(* Strings.  Go compares strings byte-wise; StrOrder lists every string    *)
(* the model uses in that order ('*' < '0'..'9' < ':' < 'a'..'z').         *)
(***************************************************************************)
StrOrder ==
    << "", "*", "0.0.0.0", "10.0.0.1", "10.1.0.0/16", "10.2.0.0/16", "10.9.9.9",
       "127.0.0.1", "::", "::1", "a.com", "b.com", "c.com", "d.com", "e.com",
       "fe80::1", "not-an-ip" >>

StrRank(s) == CHOOSE i \in 1..Len(StrOrder) : StrOrder[i] = s

StrLess(a, b) == StrRank(a) < StrRank(b)

RECURSIVE InsertSorted(_, _)
InsertSorted(x, s) ==
    IF s = <<>> THEN <<x>>
    ELSE IF StrLess(x, Head(s)) THEN <<x>> \o s
    ELSE <<Head(s)>> \o InsertSorted(x, Tail(s))

RECURSIVE SortStrings(_)
SortStrings(s) ==
    IF s = <<>> THEN <<>> ELSE InsertSorted(Head(s), SortStrings(Tail(s)))

Range(s) == { s[i] : i \in DOMAIN s }

RECURSIVE SeqOfSet(_)
SeqOfSet(S) ==
    IF S = {} THEN <<>>
    ELSE LET x == CHOOSE y \in S : TRUE IN <<x>> \o SeqOfSet(S \ {x})

Perms(S) == { p \in [1..Cardinality(S) -> S] : Range(p) = S }

(***************************************************************************)
(* Addresses.  AddrForm gives, for every address string of the model, what *)
(* net.ParseIP and strings.Contains/Split see in it.                       *)
(***************************************************************************)
AddrForm(a) ==
    CASE a = "0.0.0.0"     -> [ip |-> "v4", slash |-> FALSE, prefix |-> "0.0.0.0", len |-> 0]
      [] a = "10.0.0.1"    -> [ip |-> "v4", slash |-> FALSE, prefix |-> "10.0.0.1", len |-> 0]
      [] a = "10.9.9.9"    -> [ip |-> "v4", slash |-> FALSE, prefix |-> "10.9.9.9", len |-> 0]
      [] a = "127.0.0.1"   -> [ip |-> "v4", slash |-> FALSE, prefix |-> "127.0.0.1", len |-> 0]
      [] a = "10.1.0.0/16" -> [ip |-> "none", slash |-> TRUE, prefix |-> "10.1.0.0", len |-> 16]
      [] a = "10.2.0.0/16" -> [ip |-> "none", slash |-> TRUE, prefix |-> "10.2.0.0", len |-> 16]
      [] a = "::"          -> [ip |-> "v6", slash |-> FALSE, prefix |-> "::", len |-> 0]
      [] a = "::1"         -> [ip |-> "v6", slash |-> FALSE, prefix |-> "::1", len |-> 0]
      [] a = "fe80::1"     -> [ip |-> "v6", slash |-> FALSE, prefix |-> "fe80::1", len |-> 0]
      [] OTHER             -> [ip |-> "none", slash |-> FALSE, prefix |-> a, len |-> 0]

\* util.ConvertAddressToCidr: a bare address becomes a full-length prefix.
NoCidr == [AddressPrefix |-> "", PrefixLen |-> 0]

ConvertAddressToCidr(addr) ==
    IF addr = "" THEN NoCidr
    ELSE IF AddrForm(addr).slash
         THEN [AddressPrefix |-> AddrForm(addr).prefix, PrefixLen |-> AddrForm(addr).len]
    ELSE IF AddrForm(addr).ip = "v6"
         THEN [AddressPrefix |-> addr, PrefixLen |-> 128]
    ELSE [AddressPrefix |-> addr, PrefixLen |-> 32]

\* getActualWildcardAndLocalHost
RECURSIVE getActualWildcardAndLocalHost(_)
getActualWildcardAndLocalHost(ips) ==
    IF ips = <<>> THEN <<WildcardIPv6Address, LocalhostIPv6Address>>
    ELSE IF AddrForm(Head(ips)).ip = "v4" THEN <<WildcardAddress, LocalhostAddress>>
    ELSE getActualWildcardAndLocalHost(Tail(ips))

(***************************************************************************)
(* Protocol families (protocol.Instance.IsHTTP / IsTCP and                 *)
(* plugin.ModelProtocolToListenerProtocol).                                *)
(***************************************************************************)
IsHTTP(p) == p = "HTTP"

IsTCP(p) == p = "TCP"

ModelProtocolToListenerProtocol(p) ==
    IF IsHTTP(p) THEN "HTTP" ELSE IF IsTCP(p) THEN "TCP" ELSE "UNKNOWN"

(***************************************************************************)
(* Filters, matches, chains.                                               *)
(* A FilterChainMatch pointer is a record: isNil tells the nil pointer     *)
(* from a match object; an object with no field set is the empty match.    *)
(***************************************************************************)
NilMatch == [isNil |-> TRUE, ServerNames |-> <<>>, PrefixRanges |-> <<>>]

EmptyMatch == [isNil |-> FALSE, ServerNames |-> <<>>, PrefixRanges |-> <<>>]

Filter(n, c, r) == [name |-> n, cluster |-> c, rds |-> r]

TcpProxyFilter(c) == Filter("envoy.tcp_proxy", c, "")

blackhole == TcpProxyFilter("BlackHoleCluster")

passthroughFilter == TcpProxyFilter("PassthroughCluster")

HTTPConnectionManager(rds) == Filter("envoy.http_connection_manager", "", rds)

\* filterChainOpts
ChainOpts(sni, cidrs, http, rds, nf) ==
    [sniHosts |-> sni, destinationCIDRs |-> cidrs, httpOpts |-> http, rds |-> rds,
     networkFilters |-> nf, match |-> NilMatch, alpn |-> FALSE,
     listenerFilters |-> <<>>]

FilterChain(m) == [FilterChainMatch |-> m, Filters |-> <<>>]

\* buildListenerOpts
ListenerOpts(bind, port, bindToPort, chains, skipUser) ==
    [bind |-> bind, port |-> port, bindToPort |-> bindToPort,
     filterChainOpts |-> chains, skipUserFilters |-> skipUser]

(***************************************************************************)
(* buildListener                                                           *)
(***************************************************************************)
RECURSIVE PrefixRangesOf(_)
PrefixRangesOf(cidrs) ==
    IF cidrs = <<>> THEN <<>>
    ELSE LET d == Head(cidrs)
             cidr == ConvertAddressToCidr(d)
         IN IF d = "" THEN PrefixRangesOf(Tail(cidrs))
            ELSE IF cidr # NoCidr /\ cidr.AddressPrefix # UnspecifiedIP
                 THEN <<cidr>> \o PrefixRangesOf(Tail(cidrs))
            ELSE PrefixRangesOf(Tail(cidrs))

\* the SNI hosts in the order they were supplied
SniOrderAsGiven(hosts) == hosts

SniOrder(hosts) == SortStrings(hosts)

CidrOrder(cidrs) == SortStrings(cidrs)

\* a match that takes the SNI hosts also when "*" is among them
BuildMatchWithWildcardHost(chain) ==
    LET needMatch == ~chain.match.isNil
        m0 == IF needMatch THEN chain.match ELSE EmptyMatch
        sni == SniOrder(chain.sniHosts)
        m1 == IF Len(sni) > 0 THEN [m0 EXCEPT !.ServerNames = sni] ELSE m0
        m2 == [m1 EXCEPT !.PrefixRanges = @ \o PrefixRangesOf(CidrOrder(chain.destinationCIDRs))]
    IN IF ~needMatch /\ m2 = EmptyMatch THEN NilMatch ELSE m2

BuildMatch(chain) ==
    LET needMatch == ~chain.match.isNil
        m0 == IF needMatch THEN chain.match ELSE EmptyMatch
        sni == SniOrder(chain.sniHosts)
        m1 == IF Len(sni) > 0 /\ "*" \notin Range(sni)
              THEN [m0 EXCEPT !.ServerNames = sni] ELSE m0
        m2 == [m1 EXCEPT !.PrefixRanges = @ \o PrefixRangesOf(CidrOrder(chain.destinationCIDRs))]
    IN IF ~needMatch /\ m2 = EmptyMatch THEN NilMatch ELSE m2

\* listener filters collected without the map of the names seen
KeepNames(names, seen) == names

RECURSIVE DedupNames(_, _)
DedupNames(names, seen) ==
    IF names = <<>> THEN <<>>
    ELSE IF Head(names) \in seen THEN DedupNames(Tail(names), seen)
    ELSE <<Head(names)>> \o DedupNames(Tail(names), seen \cup {Head(names)})

RECURSIVE FlattenListenerFilters(_)
FlattenListenerFilters(chains) ==
    IF chains = <<>> THEN <<>>
    ELSE Head(chains).listenerFilters \o FlattenListenerFilters(Tail(chains))

buildListener(opts) ==
    LET chains == opts.filterChainOpts
        needTLSInspector ==
            \E i \in DOMAIN chains : Len(chains[i].sniHosts) > 0 \/ chains[i].alpn
        first == IF needTLSInspector THEN <<"envoy.listener.tls_inspector">> ELSE <<>>
    IN [bind |-> opts.bind, port |-> opts.port,
        ListenerFilters |-> first \o DedupNames(FlattenListenerFilters(chains), Range(first)),
        FilterChains |-> [i \in DOMAIN chains |-> FilterChain(BuildMatch(chains[i]))],
        bindToPort |-> opts.bindToPort,
        TrafficDirection |-> "UNSPECIFIED"]

(***************************************************************************)
(* appendListenerFallthroughRoute: returns the listener and the opts, both *)
(* extended by the pass-through chain when the route is added.             *)
(***************************************************************************)
IsWildcardMatch(m) == m.isNil \/ m = EmptyMatch

HasWildcardMatch(fcs) == \E i \in DOMAIN fcs : IsWildcardMatch(fcs[i].FilterChainMatch)

appendListenerFallthroughRoute(l, opts, enableFallthroughRoute, allowAny, hasCurrent, currentChains) ==
    IF enableFallthroughRoute /\ allowAny
       /\ ~HasWildcardMatch(l.FilterChains)
       /\ ~(hasCurrent /\ HasWildcardMatch(currentChains))
    THEN [l |-> [l EXCEPT !.FilterChains = Append(@, FilterChain(EmptyMatch))],
          opts |-> [opts EXCEPT !.filterChainOpts =
                        Append(@, ChainOpts(<<>>, <<>>, FALSE, "", <<passthroughFilter>>))]]
    ELSE [l |-> l, opts |-> opts]

(***************************************************************************)
(* buildCompleteFilterChain: pluginTCP are the network filters the plugins *)
(* put into every chain of mutable.FilterChains, userFilters the user      *)
(* filters of the workload, inserted unless opts.skipUserFilters.          *)
(***************************************************************************)
\* the listener hooks of the plugins (OnOutboundListener, OnInboundListener):
\* the error a hook returns and the network filters the plugins put into
\* every chain of mutable.FilterChains
OnListener(env) == [err |-> env.pluginError, tcp |-> env.pluginTCP]

ButLast(s) == SubSeq(s, 1, Len(s) - 1)

\* an assembly that puts the filters of the plugins after all network filters
CompleteFiltersPluginsLast(opt, pluginTCP) ==
    IF ~opt.httpOpts
    THEN opt.networkFilters \o pluginTCP
    ELSE pluginTCP \o <<HTTPConnectionManager(opt.rds)>>

CompleteFilters(opt, pluginTCP) ==
    IF ~opt.httpOpts
    THEN IF Len(opt.networkFilters) > 0
         THEN ButLast(opt.networkFilters) \o pluginTCP
                  \o <<opt.networkFilters[Len(opt.networkFilters)]>>
         ELSE pluginTCP
    ELSE pluginTCP \o <<HTTPConnectionManager(opt.rds)>>

\* envoyfilter.DeprecatedInsertUserFilters: every user filter that applies
\* to the listener either fails, which is the error of the call, or puts a
\* network filter into each chain of the listener, first or last
RECURSIVE DeprecatedInsertUserFilters(_, _)
DeprecatedInsertUserFilters(l, userFilters) ==
    IF userFilters = <<>> THEN [err |-> FALSE, l |-> l]
    ELSE LET f == Head(userFilters)
         IN IF f.portNumber # l.port
            THEN DeprecatedInsertUserFilters(l, Tail(userFilters))
            ELSE IF f.insert = "error" THEN [err |-> TRUE, l |-> l]
            ELSE DeprecatedInsertUserFilters(
                     [l EXCEPT !.FilterChains =
                         [i \in DOMAIN l.FilterChains |->
                             [l.FilterChains[i] EXCEPT !.Filters =
                                 IF f.insert = "FIRST"
                                 THEN <<Filter("user", "", "")>> \o @
                                 ELSE Append(@, Filter("user", "", ""))]]],
                     Tail(userFilters))

buildCompleteFilterChain(l, opts, pluginTCP, userFilters) ==
    IF Len(opts.filterChainOpts) = 0
    THEN [err |-> TRUE, l |-> l]
    ELSE LET assembled ==
                 [l EXCEPT !.FilterChains =
                     [i \in DOMAIN l.FilterChains |->
                         [l.FilterChains[i] EXCEPT !.Filters =
                             @ \o CompleteFilters(opts.filterChainOpts[i], pluginTCP)]]]
         IN IF ~opts.skipUserFilters
            THEN DeprecatedInsertUserFilters(assembled, userFilters)
            ELSE [err |-> FALSE, l |-> assembled]

(***************************************************************************)
(* The service catalog of the snapshot.  address is what                   *)
(* GetServiceAddressForProxy returns: a VIP, the unspecified address of a  *)
(* headless service, or a CIDR.  tls lists the SNI host lists of the TLS   *)
(* routes that virtual services attach to the service.                     *)
(***************************************************************************)
Port(n, p) == [port |-> n, proto |-> p]

Service(h, a, ports, tls) == [hostname |-> h, address |-> a, ports |-> ports, tls |-> tls]

Catalog ==
    { Service("a.com", "10.0.0.1", <<Port(80, "HTTP"), Port(9080, "TCP")>>, <<>>),
      Service("b.com", "0.0.0.0", <<Port(80, "HTTP"), Port(9080, "TCP")>>, <<>>),
      Service("c.com", "10.1.0.0/16", <<Port(9080, "TCP"), Port(53, "UDP")>>, <<>>),
      Service("d.com", "10.2.0.0/16", <<Port(80, "TCP"), Port(9080, "TCP")>>,
              << <<"c.com">>, <<"b.com", "a.com">> >>),
      Service("e.com", "10.2.0.0/16", <<Port(9080, "TCP")>>, << <<"a.com", "b.com">> >>) }

Hostnames == { s.hostname : s \in Catalog }

ServiceOf(h) == CHOOSE s \in Catalog : s.hostname = h

\* buildSidecarOutboundTCPTLSFilterChainOpts: one chain per TLS route of the
\* service, else the default chain of the service; every chain is restricted
\* to destinationCIDR.
buildSidecarOutboundTCPTLSFilterChainOpts(destinationCIDR, svc) ==
    IF svc.tls = <<>>
    THEN << ChainOpts(<<>>, <<destinationCIDR>>, FALSE, "", <<TcpProxyFilter(svc.hostname)>>) >>
    ELSE [i \in DOMAIN svc.tls |->
             ChainOpts(svc.tls[i], <<destinationCIDR>>, FALSE, "",
                       <<TcpProxyFilter(svc.hostname)>>)]

(***************************************************************************)
(* The conflict registry: listenerMap maps a key <<bind, port>> (the       *)
(* string "bind:port" of the code) to an outboundListenerEntry.            *)
(***************************************************************************)
ListenerKey(bind, port) == <<bind, port>>

\* fmt.Sprintf("%d", port) for the ports of the model
Itoa(n) ==
    CASE n = 53 -> "53" [] n = 80 -> "80" [] n = 9080 -> "9080"
      [] n = 15002 -> "15002" [] OTHER -> "0"

rdsName(bind, port) == IF port = 0 THEN bind ELSE Itoa(port)

\* outboundListenerConflict.addMetric: one push.Add call
Conflict(metric, key, entry, newHostname, newProtocol) ==
    [metric |-> metric, listenerName |-> key,
     currentServices |-> entry.services,
     currentProtocol |-> entry.servicePort.proto,
     newHostname |-> newHostname, newProtocol |-> newProtocol]

OptsResult(ret, chains, bind, cidr, lm, push) ==
    [ret |-> ret, chains |-> chains, bind |-> bind, destinationCIDR |-> cidr,
     listenerMap |-> lm, push |-> push]

\* an HTTP resolve that hands a chain to the build also when the key is taken
HTTPListenerOptsBuildingOnMerge(lm, push, listenerOpts, params, actualWildcard) ==
    LET bind == IF listenerOpts.bind = "" THEN actualWildcard ELSE listenerOpts.bind
        key == ListenerKey(bind, params.port.port)
        chains == << ChainOpts(<<>>, <<>>, TRUE, rdsName(bind, params.port.port), <<>>) >>
    IN IF key \in DOMAIN lm /\ lm[key].locked
       THEN OptsResult(FALSE, <<>>, bind, "", lm, push)
       ELSE IF key \in DOMAIN lm /\ ~IsHTTP(lm[key].servicePort.proto)
       THEN OptsResult(FALSE, <<>>, bind, "",
                [lm EXCEPT ![key].services = Append(@, params.service.hostname)],
                Append(push, Conflict("TCPOverHTTP", key, lm[key],
                                      params.service.hostname, params.port.proto)))
       ELSE OptsResult(TRUE, chains, bind, "", lm, push)

\* an HTTP resolve that does not record the service it merges
HTTPListenerOptsDroppingService(lm, push, listenerOpts, params, actualWildcard) ==
    LET bind == IF listenerOpts.bind = "" THEN actualWildcard ELSE listenerOpts.bind
        key == ListenerKey(bind, params.port.port)
    IN IF key \in DOMAIN lm
       THEN OptsResult(FALSE, <<>>, bind, "", lm, push)
       ELSE OptsResult(TRUE, << ChainOpts(<<>>, <<>>, TRUE, rdsName(bind, params.port.port), <<>>) >>,
                       bind, "", lm, push)

buildSidecarOutboundHTTPListenerOptsForPortOrUDS(lm, push, listenerOpts, params, actualWildcard) ==
    LET bind == IF listenerOpts.bind = "" THEN actualWildcard ELSE listenerOpts.bind
        key == ListenerKey(bind, params.port.port)
    IN IF key \in DOMAIN lm
       THEN IF lm[key].locked
            THEN OptsResult(FALSE, <<>>, bind, "", lm, push)
            ELSE OptsResult(FALSE, <<>>, bind, "",
                    [lm EXCEPT ![key].services = Append(@, params.service.hostname)],
                    IF ~IsHTTP(lm[key].servicePort.proto)
                    THEN Append(push, Conflict("TCPOverHTTP", key, lm[key],
                                               params.service.hostname, params.port.proto))
                    ELSE push)
       ELSE OptsResult(TRUE, << ChainOpts(<<>>, <<>>, TRUE, rdsName(bind, params.port.port), <<>>) >>,
                       bind, "", lm, push)

\* a TCP resolve that does not look at the lock of the entry
TCPListenerOptsIgnoringLock(lm, push, listenerOpts, params, actualWildcard) ==
    LET svcListenAddress == params.service.address
        unbound == listenerOpts.bind = "" /\ svcListenAddress # ""
        isCidr == AddrForm(svcListenAddress).slash
        bind == IF unbound
                THEN IF isCidr THEN actualWildcard ELSE svcListenAddress
                ELSE listenerOpts.bind
        destinationCIDR == IF unbound /\ isCidr THEN svcListenAddress ELSE ""
        key == ListenerKey(bind, params.port.port)
    IN IF key \in DOMAIN lm /\ ~IsTCP(lm[key].servicePort.proto)
       THEN OptsResult(FALSE, <<>>, bind, destinationCIDR, lm,
                Append(push, Conflict("HTTPOverTCP", key, lm[key],
                                      params.service.hostname, params.port.proto)))
       ELSE OptsResult(TRUE,
                buildSidecarOutboundTCPTLSFilterChainOpts(destinationCIDR, params.service),
                bind, destinationCIDR, lm, push)

buildSidecarOutboundTCPListenerOptsForPortOrUDS(lm, push, listenerOpts, params, actualWildcard) ==
    LET svcListenAddress == params.service.address
        unbound == listenerOpts.bind = "" /\ svcListenAddress # ""
        isCidr == AddrForm(svcListenAddress).slash
        bind == IF unbound
                THEN IF isCidr THEN actualWildcard ELSE svcListenAddress
                ELSE listenerOpts.bind
        destinationCIDR == IF unbound /\ isCidr THEN svcListenAddress ELSE ""
        key == ListenerKey(bind, params.port.port)
    IN IF key \in DOMAIN lm /\ lm[key].locked
       THEN OptsResult(FALSE, <<>>, bind, destinationCIDR, lm, push)
       ELSE IF key \in DOMAIN lm /\ ~IsTCP(lm[key].servicePort.proto)
       THEN OptsResult(FALSE, <<>>, bind, destinationCIDR, lm,
                Append(push, Conflict("HTTPOverTCP", key, lm[key],
                                      params.service.hostname, params.port.proto)))
       ELSE OptsResult(TRUE,
                buildSidecarOutboundTCPTLSFilterChainOpts(destinationCIDR, params.service),
                bind, destinationCIDR, lm, push)

(***************************************************************************)
(* The TCP merge of buildSidecarOutboundListenerForPortOrUDS: every        *)
(* incoming chain is compared with the chains the entry had before the     *)
(* merge; acc carries newFilterChains, the entry's services and the push   *)
(* status through the loop.                                                *)
(***************************************************************************)
RECURSIVE ConflictFound(_, _)
\* a comparison that finds only two absent matches identical
ConflictFoundNilOnly(existing, incoming) ==
    /\ incoming.FilterChainMatch.isNil
    /\ \E i \in DOMAIN existing : existing[i].FilterChainMatch.isNil

ConflictFound(existing, incoming) ==
    IF existing = <<>> THEN FALSE
    ELSE LET e == Head(existing).FilterChainMatch
             m == incoming.FilterChainMatch
         IN IF e.isNil
            THEN IF m.isNil THEN TRUE ELSE ConflictFound(Tail(existing), incoming)
            ELSE IF m.isNil THEN ConflictFound(Tail(existing), incoming)
            ELSE IF e = m THEN TRUE
            ELSE ConflictFound(Tail(existing), incoming)

RECURSIVE MergeFilterChains(_, _, _, _, _)
\* a merge that replaces the chains and services of the entry
MergeFilterChainsReplacing(incoming, entry, key, params, acc) ==
    [acc EXCEPT !.chains = incoming, !.services = <<params.service.hostname>>]

MergeFilterChains(incoming, entry, key, params, acc) ==
    IF incoming = <<>> THEN acc
    ELSE LET c == Head(incoming)
             cur == [entry EXCEPT !.services = acc.services]
         IN IF ConflictFound(entry.listener.FilterChains, c)
            THEN MergeFilterChains(Tail(incoming), entry, key, params,
                    [acc EXCEPT !.push = Append(@, Conflict("TCPOverTCP", key, cur,
                                    params.service.hostname, params.port.proto))])
            ELSE MergeFilterChains(Tail(incoming), entry, key, params,
                    [acc EXCEPT !.chains = Append(@, c),
                                !.services = Append(@, params.service.hostname)])

NewEntry(params, bind, l) ==
    [services |-> <<params.service.hostname>>, servicePort |-> params.port,
     bind |-> bind, listener |-> l, locked |-> FALSE]

(***************************************************************************)
(* buildSidecarOutboundListenerForPortOrUDS: the registry, the push status *)
(* and the proxy after one unit.  env holds the feature flags and mesh     *)
(* settings, node the proxy.  The chain that blackholes the traffic to the *)
(* proxy's own addresses is given the slice node.IPAddresses itself as its *)
(* destination CIDRs, and buildListener sorts the CIDRs of a chain in      *)
(* place: a unit that gets as far as buildListener with that chain leaves  *)
(* the proxy with its IP addresses sorted.                                 *)
(***************************************************************************)
\* an early return that leaves the entries of the registry without their lock
UnchangedButUnlocked(lm, push, node) ==
    [listenerMap |-> [k \in DOMAIN lm |-> [lm[k] EXCEPT !.locked = FALSE]], push |-> push,
     node |-> node]

Unchanged(lm, push, node) == [listenerMap |-> lm, push |-> push, node |-> node]

PrependBlackhole(opts, node) ==
    [opts EXCEPT !.filterChainOpts =
        << ChainOpts(<<>>, node.IPAddresses, FALSE, "", <<blackhole>>) >> \o @]

buildSidecarOutboundListenerForPortOrUDS(lm, push, listenerOpts, params, actualWildcard, node, env) ==
    IF params.listenerProtocol \notin {"HTTP", "TCP"} THEN Unchanged(lm, push, node)
    ELSE
    LET r == IF params.listenerProtocol = "HTTP"
             THEN buildSidecarOutboundHTTPListenerOptsForPortOrUDS(
                      lm, push, listenerOpts, params, actualWildcard)
             ELSE buildSidecarOutboundTCPListenerOptsForPortOrUDS(
                      lm, push, listenerOpts, params, actualWildcard)
        key == ListenerKey(r.bind, params.port.port)
        hasCurrent == key \in DOMAIN lm
        opts1 == [listenerOpts EXCEPT !.bind = r.bind, !.filterChainOpts = r.chains]
        withBlackhole == opts1.bind = actualWildcard /\ env.restrictPodIPTrafficLoops
        opts2 == IF withBlackhole THEN PrependBlackhole(opts1, node) ELSE opts1
        \* sort.Strings(chain.destinationCIDRs) on the slice shared with the proxy
        node2 == IF withBlackhole THEN [node EXCEPT !.IPAddresses = CidrOrder(@)]
                 ELSE node
        ft == appendListenerFallthroughRoute(buildListener(opts2), opts2,
                  env.enableFallthroughRoute, node.allowAny, hasCurrent,
                  IF hasCurrent THEN lm[key].listener.FilterChains ELSE <<>>)
        \* the error of a hook is logged (log.Warn) and the build goes on
        hook == OnListener(env)
        built == buildCompleteFilterChain(
                    [ft.l EXCEPT !.TrafficDirection = "OUTBOUND"], ft.opts, hook.tcp,
                    env.userFilters)
    IN IF ~r.ret THEN Unchanged(r.listenerMap, r.push, node)
       ELSE IF built.err THEN Unchanged(lm, push, node2)
       ELSE IF hasCurrent
       THEN LET m == MergeFilterChains(built.l.FilterChains, lm[key], key, params,
                        [chains |-> lm[key].listener.FilterChains,
                         services |-> lm[key].services, push |-> push])
            IN [listenerMap |-> [lm EXCEPT ![key].listener.FilterChains = m.chains,
                                           ![key].services = m.services],
                push |-> m.push, node |-> node2]
       ELSE [listenerMap |-> (key :> NewEntry(params, r.bind, built.l)) @@ lm,
             push |-> push, node |-> node2]

\* a port check that lets every port pass
validatePortAlways(node, i, bindToPort) == TRUE

\* validatePort
validatePort(node, i, bindToPort) ==
    IF ~bindToPort THEN TRUE
    ELSE IF i > PrivilegedPortMax THEN TRUE
    ELSE node.sidecarUID = "0"

(***************************************************************************)
(* Inbound stage: buildSidecarInboundListenerForPortOrUDS for one service  *)
(* instance.  im is the stage's listenerMap (key -> instanceHostname), ls  *)
(* the listeners built so far.                                             *)
(***************************************************************************)
Instance(h, a, n, p) == [hostname |-> h, address |-> a, port |-> n, proto |-> p]

Instances ==
    { Instance("a.com", "10.9.9.9", 80, "HTTP"),
      Instance("b.com", "10.9.9.9", 80, "TCP"),
      Instance("c.com", "10.9.9.9", 80, "UDP"),
      Instance("d.com", "10.9.9.9", 9080, "TCP") }

InboundConflict(key, oldHostname, newHostname) ==
    [metric |-> "ConflictInboundListener", listenerName |-> key,
     currentServices |-> <<oldHostname>>, currentProtocol |-> "",
     newHostname |-> newHostname, newProtocol |-> ""]

InboundChainOpts(inst) ==
    IF ModelProtocolToListenerProtocol(inst.proto) = "HTTP"
    THEN ChainOpts(<<>>, <<>>, TRUE, "", <<>>)
    ELSE ChainOpts(<<>>, <<>>, FALSE, "", <<TcpProxyFilter(inst.hostname)>>)

\* an inbound build that never looks the key up
InboundListenerWithoutLookup(im, ls, push, inst, bindToPort, env) ==
    LET key == ListenerKey(inst.address, inst.port)
        opts == ListenerOpts(inst.address, inst.port, bindToPort, <<InboundChainOpts(inst)>>, FALSE)
        built == buildCompleteFilterChain(
                    [buildListener(opts) EXCEPT !.TrafficDirection = "INBOUND"],
                    opts, OnListener(env).tcp, env.userFilters)
    IN IF ModelProtocolToListenerProtocol(inst.proto) \notin {"HTTP", "TCP"}
       THEN [im |-> im, ls |-> ls, push |-> push]
       ELSE [im |-> (key :> inst.hostname) @@ im, ls |-> Append(ls, built.l), push |-> push]

buildSidecarInboundListenerForPortOrUDS(im, ls, push, inst, bindToPort, env) ==
    LET key == ListenerKey(inst.address, inst.port)
        opts == ListenerOpts(inst.address, inst.port, bindToPort, <<InboundChainOpts(inst)>>, FALSE)
        built == buildCompleteFilterChain(
                    [buildListener(opts) EXCEPT !.TrafficDirection = "INBOUND"],
                    opts, OnListener(env).tcp, env.userFilters)
    IN IF key \in DOMAIN im
       THEN [im |-> im, ls |-> ls,
             push |-> Append(push, InboundConflict(key, im[key], inst.hostname))]
       ELSE IF ModelProtocolToListenerProtocol(inst.proto) \notin {"HTTP", "TCP"}
       THEN [im |-> im, ls |-> ls, push |-> push]
       ELSE IF built.err THEN [im |-> im, ls |-> ls, push |-> push]
       ELSE [im |-> (key :> inst.hostname) @@ im, ls |-> Append(ls, built.l), push |-> push]

\* buildSidecarInboundListeners, the loop over node.ServiceInstances
RECURSIVE InboundListenersOf(_, _, _)
InboundListenersOf(st, instances, env) ==
    IF instances = <<>> THEN st
    ELSE InboundListenersOf(
             buildSidecarInboundListenerForPortOrUDS(
                 st.im, st.ls, st.push, Head(instances), FALSE, env),
             Tail(instances), env)

\* an inbound build that goes through the service instances in every mode
InboundListenersInEveryMode(node, env, instances) ==
    InboundListenersOf([im |-> [k \in {} |-> ""], ls |-> <<>>, push |-> <<>>], instances, env)

\* buildSidecarInboundListeners for a proxy without custom ingress listeners
buildSidecarInboundListeners(node, env, instances) ==
    IF node.noneMode THEN [im |-> [k \in {} |-> ""], ls |-> <<>>, push |-> <<>>]
    ELSE InboundListenersOf([im |-> [k \in {} |-> ""], ls |-> <<>>, push |-> <<>>],
                            instances, env)

(***************************************************************************)
(* Service.Validate (validation.go).  The result is the list of the errors *)
(* collected, empty when Validate returns nil.  HostnameParts gives what   *)
(* strings.Split(hostname, ".") yields for the hostnames of the model.     *)
(***************************************************************************)
NamedPort(name, port) == [Name |-> name, Port |-> port]

HostnameParts(h) ==
    CASE h = ""       -> <<"">>
      [] h = "a.com"  -> <<"a", "com">>
      [] h = "a..com" -> <<"a", "", "com">>
      [] h = "A.com"  -> <<"A", "com">>
      [] OTHER        -> <<h>>

\* labels.IsDNS1123Label: lower-case alphanumerics and '-', not empty
IsDNS1123Label(l) == l \in {"a", "com", "http", "tcp"}

\* config.ValidatePort
ValidatePort(port) == 1 <= port /\ port <= 65535

RECURSIVE HostnamePartErrors(_)
HostnamePartErrors(parts) ==
    IF parts = <<>> THEN <<>>
    ELSE (IF ~IsDNS1123Label(Head(parts)) THEN <<"invalid hostname part">> ELSE <<>>)
         \o HostnamePartErrors(Tail(parts))

RECURSIVE PortErrors(_, _)
PortErrors(ports, n) ==
    IF ports = <<>> THEN <<>>
    ELSE LET port == Head(ports)
         IN (IF port.Name = ""
             THEN (IF n > 1 THEN <<"empty port names are not allowed">> ELSE <<>>)
             ELSE IF ~IsDNS1123Label(port.Name) THEN <<"invalid name">> ELSE <<>>)
            \o (IF ~ValidatePort(port.Port) THEN <<"invalid service port value">> ELSE <<>>)
            \o PortErrors(Tail(ports), n)

ServiceValidate(s) ==
    (IF s.Hostname = "" THEN <<"invalid empty hostname">> ELSE <<>>)
    \o HostnamePartErrors(HostnameParts(s.Hostname))
    \o (IF Len(s.Ports) = 0 THEN <<"service must have at least one declared port">> ELSE <<>>)
    \o PortErrors(s.Ports, Len(s.Ports))

(***************************************************************************)
(* buildHTTPProxy: the listener, or none (isNil).                          *)
(***************************************************************************)
NoListener ==
    [bind |-> "", port |-> 0, ListenerFilters |-> <<>>, FilterChains |-> <<>>,
     bindToPort |-> FALSE, TrafficDirection |-> "NONE"]

buildHTTPProxy(node, env) ==
    LET port == IF env.proxyHttpPort = 0 /\ node.noneMode
                THEN DefaultPortHTTPProxy ELSE env.proxyHttpPort
        opts == ListenerOpts(getActualWildcardAndLocalHost(node.IPAddresses)[2], port, TRUE,
                             << ChainOpts(<<>>, <<>>, TRUE, RDSHttpProxy, <<>>) >>, TRUE)
    IN IF port = 0 THEN NoListener
       ELSE buildCompleteFilterChain(buildListener(opts), opts, <<>>, env.userFilters).l

(***************************************************************************)
(* The end of buildSidecarOutboundListeners: the registry is walked in the *)
(* order the map iteration yields (order: a sequence of all keys), the TCP *)
(* listeners are collated before the HTTP ones, the HTTP proxy comes last. *)
(***************************************************************************)
Validate(l) == Len(l.FilterChains) >= 1

RECURSIVE SelectListeners(_, _, _)
SelectListeners(lm, order, tcp) ==
    IF order = <<>> THEN <<>>
    ELSE LET e == lm[Head(order)]
         IN IF Validate(e.listener) /\ IsTCP(e.servicePort.proto) = tcp
            THEN <<e.listener>> \o SelectListeners(lm, Tail(order), tcp)
            ELSE SelectListeners(lm, Tail(order), tcp)

CollateListeners(lm, order, node, env) ==
    LET httpProxy == buildHTTPProxy(node, env)
    IN SelectListeners(lm, order, TRUE) \o SelectListeners(lm, order, FALSE)
          \o (IF httpProxy = NoListener THEN <<>>
              ELSE << [httpProxy EXCEPT !.TrafficDirection = "OUTBOUND"] >>)

(***************************************************************************)
(* Management listeners.                                                   *)
(***************************************************************************)
RECURSIVE buildSidecarInboundMgmtListeners(_, _, _, _)
buildSidecarInboundMgmtListeners(node, env, managementPorts, managementIP) ==
    \* without a management IP the listeners go on the loopback address of
    \* the family of the proxy's first IP address
    IF managementIP = "" /\ AddrForm(node.IPAddresses[1]).ip = "v6"
    THEN buildSidecarInboundMgmtListeners(node, env, managementPorts, LocalhostIPv6Address)
    ELSE IF managementIP = ""
    THEN buildSidecarInboundMgmtListeners(node, env, managementPorts, LocalhostAddress)
    ELSE IF node.noneMode \/ managementPorts = <<>> THEN <<>>
    ELSE LET mPort == Head(managementPorts)
             opts == ListenerOpts(managementIP, mPort.port, FALSE,
                        << ChainOpts(<<>>, <<>>, FALSE, "", <<TcpProxyFilter("mgmtCluster")>>) >>,
                        TRUE)
             built == buildCompleteFilterChain(
                         [buildListener(opts) EXCEPT !.TrafficDirection = "INBOUND"],
                         opts, <<>>, env.userFilters)
             rest == buildSidecarInboundMgmtListeners(node, env, Tail(managementPorts), managementIP)
         IN IF mPort.proto \in {"HTTP", "TCP"} /\ ~built.err
            THEN <<built.l>> \o rest ELSE rest

\* util.GetByAddress
GetByAddress(listeners, bind, port) ==
    \E i \in DOMAIN listeners : listeners[i].bind = bind /\ listeners[i].port = port

\* an append loop that never looks for a listener on the same address
AppendAll(listeners, mgmtListeners) == listeners \o mgmtListeners

RECURSIVE AppendNonOverlapping(_, _)
AppendNonOverlapping(listeners, mgmtListeners) ==
    IF mgmtListeners = <<>> THEN listeners
    ELSE LET m == Head(mgmtListeners)
         IN IF GetByAddress(listeners, m.bind, m.port)
            THEN AppendNonOverlapping(listeners, Tail(mgmtListeners))
            ELSE AppendNonOverlapping(Append(listeners, m), Tail(mgmtListeners))

RECURSIVE MgmtListenersOfIPs(_, _, _, _)
MgmtListenersOfIPs(node, env, ips, managementPorts) ==
    IF ips = <<>> THEN <<>>
    ELSE buildSidecarInboundMgmtListeners(node, env, managementPorts, Head(ips))
            \o MgmtListenersOfIPs(node, env, Tail(ips), managementPorts)

generateManagementListeners(node, env, managementPorts, listeners) ==
    IF node.hasCustomIngressListeners \/ node.noneMode THEN listeners
    ELSE AppendNonOverlapping(listeners,
             MgmtListenersOfIPs(node, env, node.IPAddresses, managementPorts))

(***************************************************************************)
(* buildSidecarOutboundListeners, one iteration at a time.  An iteration   *)
(* is described by an Input record read from the snapshot (the sidecar     *)
(* scope and the catalog).                                                 *)
(***************************************************************************)
Input(op, host, port, proto, bind, capNone) ==
    [op |-> op, host |-> host, port |-> port, proto |-> proto, bind |-> bind,
     capNone |-> capNone]

NoRule == [port |-> Port(0, ""), bind |-> "", bindToPort |-> FALSE, catchAll |-> FALSE]

actualWildcard(n) == getActualWildcardAndLocalHost(n.IPAddresses)[1]

actualLocalHostAddress(n) == getActualWildcardAndLocalHost(n.IPAddresses)[2]

bindToPortOf(n, capNone) == n.noneMode \/ capNone

\* an egress listener with a port: its listenPort, bind and bindToPort
ExplicitRule(n, inp) ==
    [port |-> Port(inp.port, inp.proto),
     bind |-> IF bindToPortOf(n, inp.capNone) /\ inp.bind = "" THEN actualLocalHostAddress(n)
              ELSE IF inp.bind = "" THEN actualWildcard(n)
              ELSE inp.bind,
     bindToPort |-> bindToPortOf(n, inp.capNone), catchAll |-> FALSE]

\* the catch-all egress listener: its bind and bindToPort
CatchAllRule(n, inp) ==
    [port |-> Port(0, ""),
     bind |-> IF bindToPortOf(n, inp.capNone) /\ inp.bind = "" THEN actualLocalHostAddress(n)
              ELSE inp.bind,
     bindToPort |-> bindToPortOf(n, inp.capNone), catchAll |-> TRUE]

\* the catch-all egress listener starts without locking
LockNone(lm) == lm

LockAll(lm) == [k \in DOMAIN lm |-> [lm[k] EXCEPT !.locked = TRUE]]

Params(svc, port) ==
    [service |-> svc, port |-> port,
     listenerProtocol |-> ModelProtocolToListenerProtocol(port.proto)]

\* the body of the loop over services (and service ports) for one unit
OutboundUnit(lm, ps, r, svc, port, n, e) ==
    IF r.catchAll /\ ~validatePort(n, port.port, r.bindToPort)
    THEN Unchanged(lm, ps, n)
    ELSE buildSidecarOutboundListenerForPortOrUDS(
             lm, ps, ListenerOpts(r.bind, port.port, r.bindToPort, <<>>, FALSE),
             Params(svc, port), actualWildcard(n), n, e)

\* the registry, push status and current egress listener after the
\* iterations of steps, from state st
\* one recorded iteration applied to st
StepOutbound(inp, st, e) ==
    CASE inp.op = "rule" ->
             [st EXCEPT !.rule = ExplicitRule(st.node, inp)]
      [] inp.op = "catchall" ->
             [st EXCEPT !.rule = CatchAllRule(st.node, inp),
                        !.listenerMap = LockAll(st.listenerMap)]
      [] inp.op = "unit" ->
             CHOOSE r \in { [st EXCEPT !.listenerMap = u.listenerMap, !.push = u.push,
                                       !.node = u.node] :
                             u \in { OutboundUnit(st.listenerMap, st.push, st.rule,
                                                  ServiceOf(inp.host),
                                                  Port(inp.port, inp.proto), st.node, e) } } : TRUE
      [] OTHER -> st

RECURSIVE RunOutbound(_, _, _)
RunOutbound(steps, st, e) ==
    IF steps = <<>> THEN st
    ELSE CHOOSE r \in { RunOutbound(Tail(steps), StepOutbound(Head(steps), s, e), e) :
                         s \in {st} } : TRUE

\* the key under which a unit is looked up in the registry
UnitKey(r, svc, port, n) ==
    ListenerKey(
        (IF ModelProtocolToListenerProtocol(port.proto) = "HTTP"
         THEN buildSidecarOutboundHTTPListenerOptsForPortOrUDS(
                  [k \in {} |-> 0], <<>>, ListenerOpts(r.bind, port.port, FALSE, <<>>, FALSE),
                  Params(svc, port), actualWildcard(n))
         ELSE buildSidecarOutboundTCPListenerOptsForPortOrUDS(
                  [k \in {} |-> 0], <<>>, ListenerOpts(r.bind, port.port, FALSE, <<>>, FALSE),
                  Params(svc, port), actualWildcard(n))).bind,
        port.port)

(***************************************************************************)
(* State.                                                                  *)
(***************************************************************************)
VARIABLES
    node,          \* the proxy: IP addresses, interception mode, metadata
    env,           \* mesh settings and feature flags of the snapshot
    pc,            \* stage of buildSidecarListeners
    inboundMap,    \* listenerMap of the inbound stage
    inbound,       \* listeners returned by the inbound stage
    rule,          \* the egress listener whose services are being processed
    usedPorts,     \* ports of the egress listeners with a port seen so far
    ruleDone,      \* units of the current egress listener already processed
    nunits,        \* number of outbound units processed
    listenerMap,   \* the outbound conflict registry
    push,          \* push status: the sequence of push.Add calls
    out,           \* result of buildSidecarOutboundListeners
    out2,          \* result of the repeated buildSidecarOutboundListeners
    final,         \* the listeners of the builder: inbound, outbound, management, virtual
    script,        \* the iterations executed so far (the snapshot read)
    last,          \* the iteration just executed
    call,          \* a function called on its own: its arguments and result
    now,           \* the clock (time.Now)
    DebounceAfter, \* the quiet time to wait for after an event
    DebounceMax,   \* the longest time to wait while events keep arriving
    enableEDSDebounce, \* features.EnableEDSDebounce
    pushChannel,   \* s.pushChannel: the requests sent and not yet received
    sent,          \* number of ConfigUpdate calls so far
    timeChan,      \* debounce: the timer armed by time.After, or none
    startDebounce, \* debounce: when the first event of the batch was received
    lastConfigUpdateTime, \* debounce: when the last debounced event was received
    debouncedEvents, \* debounce: number of events merged into req
    req,           \* debounce: the merged request, or none
    pushCounter,   \* debounce: number of debounced pushes
    stopped,       \* stopCh is closed and debounce has returned
    pending,       \* the times at which the events merged into req were received
    fnCalls,       \* the calls of fn: the request and the time of the call
    PushContext,   \* s.Env.PushContext
    version,       \* the global version string
    versionNum,    \* the version counter
    pushers,       \* the goroutines running DiscoveryServer.Push
    adsPushes,     \* the AdsPushAll goroutines started: version, push context, request
    stopCh,        \* stopCh is closed
    returned,      \* the goroutines of Start that returned
    refresher,     \* periodicRefresh: where it stands, the version and context it read, its ticks
    sendPushes,    \* doSendPushes: where its loop stands
    semaphore,     \* s.concurrentPushLimit: the number of slots taken
    pushQueue,     \* s.pushQueue: the pushes enqueued and not yet dequeued
    senders,       \* the goroutines doSendPushes started, one for every dequeued push
    proxyUpdates,  \* s.proxyUpdates: the proxies marked for a full push
    proxyUpdatesMutex, \* s.proxyUpdatesMutex: the goroutine holding it, or 0
    closed         \* the clients whose grpc stream is closed

\* the variables of the synthesis of one proxy
synthesis == << node, env, pc, inboundMap, inbound, rule, usedPorts, ruleDone, nunits,
                listenerMap, push, out, out2, final, script, last >>

\* the variables of handleUpdates / debounce and of its environment
debouncer == << now, DebounceAfter, DebounceMax, enableEDSDebounce, pushChannel, sent,
                timeChan, startDebounce, lastConfigUpdateTime, debouncedEvents, req,
                pushCounter, stopped, pending, fnCalls >>

\* the variables of DiscoveryServer.Push
\* the variables of Start, doSendPushes and checkProxyNeedsFullPush
sender == << stopCh, returned, refresher, sendPushes, semaphore, pushQueue, senders, proxyUpdates,
             proxyUpdatesMutex, closed >>

server == << PushContext, version, versionNum, pushers, adsPushes, sender >>

vars == << synthesis, call, debouncer, server >>

NoCall == [fn |-> "none"]

EmptyMap == [k \in {} |-> 0]

NoKey == ListenerKey("", 0)

Last(op, key, host, port, proto) ==
    [op |-> op, key |-> key, host |-> host, port |-> port, proto |-> proto]

\* the proxies: those with one IP address, and sidecars whose two IP
\* addresses are not in the order sort.Strings puts them in
Nodes ==
    [IPAddresses : {<<"10.9.9.9">>}, noneMode : BOOLEAN, sidecarUID : {"0", "1337"},
     allowAny : BOOLEAN, hasCustomIngressListeners : {FALSE},
     Type : {"SidecarProxy", "Router"}]
       \cup [IPAddresses : {<<"fe80::1", "10.9.9.9">>}, noneMode : BOOLEAN,
             sidecarUID : {"1337"}, allowAny : {FALSE},
             hasCustomIngressListeners : {FALSE}, Type : {"SidecarProxy"}]

\* userFilters are the EnvoyFilter configurations of the workload: the port
\* of the listeners one applies to and what applying it does
Envs ==
    [restrictPodIPTrafficLoops : BOOLEAN, enableFallthroughRoute : {TRUE},
     pluginTCP : {<<>>}, pluginError : {FALSE}, proxyHttpPort : {0, 9080},
     ProxyListenPort : {0, 15001}, ProxyInboundListenPort : {15006},
     userFilters : {<<>>}, RefreshDuration : {0}]

\* the environments in which the listener hook of a plugin returns an
\* error, and those with a user filter for the listeners on port 80
HookEnvs ==
    { [e EXCEPT !.pluginError = TRUE] : e \in Envs }
       \cup { [e EXCEPT !.userFilters = <<[portNumber |-> 80, insert |-> ins]>>] :
                e \in Envs, ins \in {"error", "FIRST", "LAST"} }

RulePorts == {80, 9080}

RuleBinds == {""}

\* the capture modes an egress listener can usefully declare: in NONE
\* interception the listener's capture mode is not looked at
CaptureNone == IF node.noneMode THEN {FALSE} ELSE BOOLEAN

ManagementPortChoices ==
    << <<>>, <<Port(80, "HTTP")>>, <<Port(9080, "TCP"), Port(9080, "TCP")>> >>

\* the service instances and the outbound units of one exploration number
\* MaxUnits together
UnitBudget == MaxUnits - Cardinality({ i \in DOMAIN script : script[i].op = "inbound" })

\* a request, and no request (nil)
PushRequest(full) == [isNil |-> FALSE, Full |-> full]

NoRequest == [isNil |-> TRUE, Full |-> FALSE]

\* no timer (timeChan = nil), and the timer armed by time.After(d) at time t
NoTimer == [armed |-> FALSE, at |-> 0]

After(t, d) == [armed |-> TRUE, at |-> t + d]

\* the version string before the first push ("0"), and the one Push builds
\* from the time and the version counter
InitialVersion == [time |-> 0, num |-> 0, initial |-> TRUE]

VersionString(t, n) == [time |-> t, num |-> n, initial |-> FALSE]

\* debounce before its loop is entered, under one setting of the two delays
DebouncerIdle ==
    /\ now = 0
    /\ DebounceAfter = 2
    /\ DebounceMax = 3
    /\ enableEDSDebounce = TRUE
    /\ pushChannel = <<>>
    /\ sent = 0
    /\ timeChan = NoTimer
    /\ startDebounce = 0
    /\ lastConfigUpdateTime = 0
    /\ debouncedEvents = 0
    /\ req = NoRequest
    /\ pushCounter = 0
    /\ stopped = FALSE
    /\ pending = <<>>
    /\ fnCalls = <<>>

\* the server before the first Push: the push context and version of the start
ServerIdle ==
    /\ PushContext = 0
    /\ version = InitialVersion
    /\ versionNum = 0
    /\ pushers = <<>>
    /\ adsPushes = <<>>
    /\ stopCh = FALSE
    /\ returned = {}
    /\ refresher = [pc |-> "start", versionLocal |-> InitialVersion, pushLocal |-> 0,
                    ticks |-> 0]
    /\ sendPushes = "select"
    /\ semaphore = 0
    /\ pushQueue = <<>>
    /\ senders = <<>>
    /\ proxyUpdates = {}
    /\ proxyUpdatesMutex = 0
    /\ closed = {}

SynthesisInit(nodes, envs) ==
    /\ node \in nodes
    /\ env \in envs
    /\ pc = "inbound"
    /\ inboundMap = EmptyMap
    /\ inbound = <<>>
    /\ rule = NoRule
    /\ usedPorts = {}
    /\ ruleDone = {}
    /\ nunits = 0
    /\ listenerMap = EmptyMap
    /\ push = <<>>
    /\ out = <<>>
    /\ out2 = <<>>
    /\ final = <<>>
    /\ script = <<>>
    /\ last = Last("init", NoKey, "", 0, "")

InitWith(envs) ==
    /\ SynthesisInit(Nodes, envs)
    /\ call = NoCall
    /\ DebouncerIdle
    /\ ServerIdle

Init == InitWith(Envs)

(***************************************************************************)
(* Actions.                                                                *)
(***************************************************************************)
\* buildSidecarInboundListeners: one iteration over node.ServiceInstances
InboundUnit ==
    \E inst \in Instances :
        LET inp == Input("inbound", inst.hostname, inst.port, inst.proto, inst.address, FALSE)
            r == buildSidecarInboundListenerForPortOrUDS(
                     inboundMap, inbound, push, inst, FALSE, env)
        IN /\ pc = "inbound"
           /\ node.Type = "SidecarProxy"
           /\ env.ProxyListenPort > 0
           /\ ~node.hasCustomIngressListeners
           /\ ~node.noneMode
           /\ Len(script) < MaxInbound
           /\ inp \notin Range(script)
           /\ script' = Append(script, inp)
           /\ inboundMap' = r.im
           /\ inbound' = r.ls
           /\ push' = r.push
           /\ last' = Last("inbound", ListenerKey(inst.address, inst.port), inst.hostname,
                           inst.port, inst.proto)
           /\ UNCHANGED << debouncer, server, call, node, env, pc, rule, usedPorts, ruleDone, nunits, listenerMap,
                           out, out2, final >>

\* buildSidecarOutboundListeners: an egress listener with a port is reached
StartExplicitRule ==
    \E port \in RulePorts, proto \in {"HTTP", "TCP"}, b \in RuleBinds :
        LET inp == Input("rule", "", port, proto, b, FALSE)
        IN /\ pc \in {"inbound", "explicit"}
           /\ node.Type = "SidecarProxy"
           /\ env.ProxyListenPort > 0
           /\ port \notin usedPorts
           /\ Cardinality(usedPorts) < MaxRules
           /\ script' = Append(script, inp)
           /\ rule' = ExplicitRule(node, inp)
           /\ usedPorts' = usedPorts \cup {port}
           /\ ruleDone' = {}
           /\ pc' = "explicit"
           /\ last' = Last("rule", NoKey, "", port, proto)
           /\ UNCHANGED << debouncer, server, call, node, env, inboundMap, inbound, nunits, listenerMap, push,
                           out, out2, final >>

\* one iteration of the loop over the services of an egress listener with a port
ExplicitUnit ==
    \E svc \in Catalog :
        /\ pc = "explicit"
        /\ nunits < UnitBudget
        /\ <<svc.hostname, rule.port.port>> \notin ruleDone
        /\ \E r \in { OutboundUnit(listenerMap, push, rule, svc, rule.port, node, env) } :
              /\ listenerMap' = r.listenerMap
              /\ push' = r.push
              /\ node' = r.node
        /\ script' = Append(script, Input("unit", svc.hostname, rule.port.port,
                                          rule.port.proto, "", FALSE))
        /\ ruleDone' = ruleDone \cup {<<svc.hostname, rule.port.port>>}
        /\ nunits' = nunits + 1
        /\ last' = Last("unit", UnitKey(rule, svc, rule.port, node), svc.hostname,
                        rule.port.port, rule.port.proto)
        /\ UNCHANGED << debouncer, server, call, env, pc, inboundMap, inbound, rule, usedPorts,
                        out, out2, final >>

\* the catch-all egress listener is reached: every entry is locked
StartCatchAll ==
    \E b \in RuleBinds, capNone \in CaptureNone :
        LET inp == Input("catchall", "", 0, "", b, capNone)
        IN /\ pc \in {"inbound", "explicit"}
           /\ node.Type = "SidecarProxy"
           /\ env.ProxyListenPort > 0
           /\ script' = Append(script, inp)
           /\ rule' = CatchAllRule(node, inp)
           /\ listenerMap' = LockAll(listenerMap)
           /\ ruleDone' = {}
           /\ pc' = "catchall"
           /\ last' = Last("catchall", NoKey, "", 0, "")
           /\ UNCHANGED << debouncer, server, call, node, env, inboundMap, inbound, usedPorts, nunits, push,
                           out, out2, final >>

\* one iteration of the loops over the services and their ports under the
\* catch-all egress listener
CatchAllUnit ==
    \E svc \in Catalog :
        \E i \in DOMAIN svc.ports :
            /\ pc = "catchall"
            /\ nunits < UnitBudget
            /\ <<svc.hostname, svc.ports[i].port>> \notin ruleDone
            /\ \E r \in { OutboundUnit(listenerMap, push, rule, svc, svc.ports[i], node, env) } :
                  /\ listenerMap' = r.listenerMap
                  /\ push' = r.push
                  /\ node' = r.node
            /\ script' = Append(script, Input("unit", svc.hostname, svc.ports[i].port,
                                              svc.ports[i].proto, "", FALSE))
            /\ ruleDone' = ruleDone \cup {<<svc.hostname, svc.ports[i].port>>}
            /\ nunits' = nunits + 1
            /\ last' = Last("unit", UnitKey(rule, svc, svc.ports[i], node), svc.hostname,
                            svc.ports[i].port, svc.ports[i].proto)
            /\ UNCHANGED << debouncer, server, call, env, pc, inboundMap, inbound, rule, usedPorts,
                            out, out2, final >>

\* the listeners of the registry are validated and collated in the order
\* the map iteration yields, the HTTP proxy is appended
Collate ==
    /\ pc \in {"inbound", "explicit", "catchall"}
    /\ node.Type = "SidecarProxy"
    /\ env.ProxyListenPort > 0
    /\ \E order \in Perms(DOMAIN listenerMap) :
          out' = CollateListeners(listenerMap, order, node, env)
    /\ pc' = "collated"
    /\ last' = Last("collate", NoKey, "", 0, "")
    /\ UNCHANGED << debouncer, server, call, node, env, inboundMap, inbound, rule, usedPorts, ruleDone, nunits,
                    listenerMap, push, out2, final, script >>

\* management listeners are generated and appended to the stages' listeners
Management ==
    \E c \in DOMAIN ManagementPortChoices :
        /\ pc = "collated"
        /\ final' = generateManagementListeners(node, env, ManagementPortChoices[c],
                                                inbound \o out)
        /\ pc' = "managed"
        /\ last' = Last("management", NoKey, "", 0, "")
        /\ UNCHANGED << debouncer, server, call, node, env, inboundMap, inbound, rule, usedPorts, ruleDone, nunits,
                        listenerMap, push, out, out2, script >>

\* buildSidecarOutboundListeners is called again for the same proxy, scope
\* and catalog: the iterations run again from an empty registry
Resynthesize ==
    /\ pc = "collated"
    /\ \E st \in { RunOutbound(script,
                        [rule |-> NoRule, listenerMap |-> EmptyMap, push |-> <<>>,
                         node |-> node], env) } :
          /\ node' = st.node
          /\ \E order \in Perms(DOMAIN st.listenerMap) :
                out2' = CollateListeners(st.listenerMap, order, st.node, env)
    /\ pc' = "resynthesized"
    /\ last' = Last("resynthesize", NoKey, "", 0, "")
    /\ UNCHANGED << debouncer, server, call, env, inboundMap, inbound, rule, usedPorts, ruleDone, nunits,
                    listenerMap, push, out, final, script >>

\* BuildListeners for a proxy no sidecar stage runs for: a router gets the
\* listeners of buildGatewayListeners (none, or one on the wildcard address),
\* a sidecar in a mesh without a ProxyListenPort gets none
BuildWithoutStages ==
    /\ pc = "inbound"
    /\ \/ /\ node.Type = "Router"
          /\ \E n \in 0..1 :
                final' = [i \in 1..n |->
                            buildListener(ListenerOpts(actualWildcard(node), 80, TRUE,
                                << ChainOpts(<<>>, <<>>, TRUE, "http.80", <<>>) >>, FALSE))]
       \/ /\ node.Type = "SidecarProxy"
          /\ env.ProxyListenPort <= 0
          /\ final' = <<>>
    /\ pc' = "built"
    /\ last' = Last("build", NoKey, "", 0, "")
    /\ UNCHANGED << debouncer, server, call, node, env, inboundMap, inbound, rule, usedPorts, ruleDone, nunits,
                    listenerMap, push, out, out2, script >>

\* buildVirtualOutboundListener: the listener the outbound traffic is
\* redirected to, on the wildcard address and mesh.ProxyListenPort
BuildVirtualOutboundListener ==
    /\ pc = "managed"
    /\ final' = Append(final,
                    [buildListener(ListenerOpts(actualWildcard(node), env.ProxyListenPort, TRUE,
                         << ChainOpts(<<>>, <<>>, FALSE, "",
                                      << IF node.allowAny THEN passthroughFilter
                                         ELSE blackhole >>) >>, TRUE))
                     EXCEPT !.TrafficDirection = "OUTBOUND"])
    /\ pc' = "virtualOutbound"
    /\ last' = Last("virtualOutbound", NoKey, "", 0, "")
    /\ UNCHANGED << debouncer, server, call, node, env, inboundMap, inbound, rule, usedPorts, ruleDone, nunits,
                    listenerMap, push, out, out2, script >>

\* buildVirtualInboundListener: the listener the inbound traffic is
\* redirected to, on the wildcard address and mesh.ProxyInboundListenPort
BuildVirtualInboundListener ==
    /\ pc = "virtualOutbound"
    /\ final' = Append(final,
                    [buildListener(ListenerOpts(actualWildcard(node), env.ProxyInboundListenPort,
                         TRUE, << ChainOpts(<<>>, <<>>, FALSE, "",
                                            << TcpProxyFilter("InboundPassthroughCluster") >>) >>,
                         TRUE))
                     EXCEPT !.TrafficDirection = "INBOUND"])
    /\ pc' = "built"
    /\ last' = Last("virtualInbound", NoKey, "", 0, "")
    /\ UNCHANGED << debouncer, server, call, node, env, inboundMap, inbound, rule, usedPorts, ruleDone, nunits,
                    listenerMap, push, out, out2, script >>

\* the end of BuildListeners: builder.patchListeners(push), then
\* builder.getListeners() returns the listeners of the stages in their order
PatchListeners ==
    /\ pc = "built"
    /\ final' = final
    /\ pc' = "done"
    /\ last' = Last("patch", NoKey, "", 0, "")
    /\ UNCHANGED << debouncer, server, call, node, env, inboundMap, inbound, rule, usedPorts, ruleDone, nunits,
                    listenerMap, push, out, out2, script >>

Next ==
    \/ BuildWithoutStages
    \/ InboundUnit
    \/ StartExplicitRule
    \/ ExplicitUnit
    \/ StartCatchAll
    \/ CatchAllUnit
    \/ Collate
    \/ Management
    \/ BuildVirtualOutboundListener
    \/ BuildVirtualInboundListener
    \/ PatchListeners
    \/ Resynthesize

Spec == Init /\ [][Next]_vars

\* the outbound stage up to the collation: the registry is built
RegistryNext ==
    \/ StartExplicitRule
    \/ ExplicitUnit
    \/ StartCatchAll
    \/ CatchAllUnit

RegistrySpec == Init /\ [][RegistryNext]_vars

\* the inbound and outbound stages with plugins whose listener hook fails
HookSpec == InitWith(HookEnvs) /\ [][InboundUnit \/ RegistryNext]_vars

(***************************************************************************)
(* Functions called on their own, on arguments drawn from bounded sets.    *)
(***************************************************************************)
\* the sequences of at most n elements of S
\* buildSidecarInboundListeners alone, also with failing hooks and with
\* user filters
InboundSpec == InitWith(Envs \cup HookEnvs) /\ [][InboundUnit]_vars

SeqsUpTo(S, n) == UNION { [1..k -> S] : k \in 0..n }

CallInit ==
    /\ InitWith(Envs)
    /\ node = [IPAddresses |-> <<"10.9.9.9">>, noneMode |-> FALSE, sidecarUID |-> "1337",
               allowAny |-> FALSE, hasCustomIngressListeners |-> FALSE, Type |-> "SidecarProxy"]
    /\ env = [restrictPodIPTrafficLoops |-> FALSE, enableFallthroughRoute |-> TRUE,
              pluginTCP |-> <<>>, pluginError |-> FALSE, proxyHttpPort |-> 0,
                       ProxyListenPort |-> 15001, ProxyInboundListenPort |-> 15006,
                       userFilters |-> <<>>, RefreshDuration |-> 0]

\* the chains buildCompleteFilterChain is given: an HTTP chain, TCP chains
\* with one and two network filters, a chain without network filters
ChainKinds ==
    { ChainOpts(<<>>, <<>>, TRUE, "80", <<>>),
      ChainOpts(<<>>, <<>>, FALSE, "", <<TcpProxyFilter("a.com")>>),
      ChainOpts(<<>>, <<>>, FALSE, "",
                <<Filter("envoy.mongo_proxy", "", ""), TcpProxyFilter("a.com")>>),
      ChainOpts(<<>>, <<>>, FALSE, "", <<>>) }

\* the network filters the plugins contribute to a chain
PluginFilterChoices == { <<>>, <<Filter("mixer", "", "")>> }

\* the user filters of the workload are skipped, or there is none, or one
\* for the listeners on port 80 (failing, or inserting first or last), or
\* one for another port
CallBuildCompleteFilterChain ==
    \E chains \in SeqsUpTo(ChainKinds, MaxChains), pluginTCP \in PluginFilterChoices,
       skipUserFilters \in BOOLEAN :
        \E userFilters \in
               IF skipUserFilters THEN {<<>>}
               ELSE { <<>>, <<[portNumber |-> 9080, insert |-> "FIRST"]>> }
                       \cup { <<[portNumber |-> 80, insert |-> ins]>> :
                                ins \in {"error", "FIRST", "LAST"} } :
            LET opts == ListenerOpts(WildcardAddress, 80, FALSE, chains, skipUserFilters)
            IN /\ call = NoCall
               /\ call' = [fn |-> "buildCompleteFilterChain", opts |-> opts,
                           pluginTCP |-> pluginTCP, userFilters |-> userFilters,
                           result |-> buildCompleteFilterChain(buildListener(opts), opts,
                                                               pluginTCP, userFilters)]
               /\ UNCHANGED << synthesis, debouncer, server >>

\* the listeners handed to generateManagementListeners
ServiceListener(bind, port) ==
    LET opts == ListenerOpts(bind, port, FALSE,
                    << ChainOpts(<<>>, <<>>, FALSE, "", <<TcpProxyFilter("a.com")>>) >>, TRUE)
    IN buildCompleteFilterChain(buildListener(opts), opts, <<>>, <<>>).l

ServiceListeners ==
    { ServiceListener("10.9.9.9", 80), ServiceListener("0.0.0.0", 80),
      ServiceListener("127.0.0.1", 80) }

ManagementPorts == { Port(80, "HTTP"), Port(9080, "TCP"), Port(53, "UDP") }

CallNodes ==
    [IPAddresses : {<<"10.9.9.9">>, <<"fe80::1", "10.9.9.9">>, <<"", "10.9.9.9">>,
                    <<"fe80::1", "">>},
     noneMode : BOOLEAN,
     sidecarUID : {"1337"}, allowAny : {FALSE}, hasCustomIngressListeners : BOOLEAN]

CallGenerateManagementListeners ==
    \E n \in CallNodes, listeners \in SeqsUpTo(ServiceListeners, MaxListeners),
       ports \in SeqsUpTo(ManagementPorts, MaxMgmtPorts) :
        /\ call = NoCall
        /\ call' = [fn |-> "generateManagementListeners", node |-> n,
                    listeners |-> listeners,
                    mgmtListeners |-> MgmtListenersOfIPs(n, env, n.IPAddresses, ports),
                    result |-> generateManagementListeners(n, env, ports, listeners)]
        /\ UNCHANGED << synthesis, debouncer, server >>

CallBuildSidecarInboundListeners ==
    \E n \in { m \in CallNodes : ~m.hasCustomIngressListeners },
       instances \in SeqsUpTo(Instances, MaxInbound) :
        /\ call = NoCall
        /\ call' = [fn |-> "buildSidecarInboundListeners", node |-> n,
                    instances |-> instances,
                    result |-> buildSidecarInboundListeners(n, env, instances).ls]
        /\ UNCHANGED << synthesis, debouncer, server >>

\* node.IPAddresses: IPv4, loopback, IPv6 and unparseable entries
IPChoices == {"10.9.9.9", "127.0.0.1", "::1", "fe80::1", "not-an-ip"}

CallGetActualWildcardAndLocalHost ==
    \E ips \in SeqsUpTo(IPChoices, MaxIPs) :
        /\ call = NoCall
        /\ call' = [fn |-> "getActualWildcardAndLocalHost", ips |-> ips,
                    result |-> getActualWildcardAndLocalHost(ips)]
        /\ UNCHANGED << synthesis, debouncer, server >>

HostnameChoices == {"", "a.com", "a..com", "A.com"}

NamedPorts ==
    { NamedPort("http", 80), NamedPort("tcp", 9080), NamedPort("", 80),
      NamedPort("HTTP", 80), NamedPort("http", 0), NamedPort("tcp", 65536) }

CallServiceValidate ==
    \E h \in HostnameChoices, ports \in SeqsUpTo(NamedPorts, MaxPorts) :
        LET svc == [Hostname |-> h, Ports |-> ports]
        IN /\ call = NoCall
           /\ call' = [fn |-> "Service.Validate", service |-> svc,
                       result |-> ServiceValidate(svc)]
           /\ UNCHANGED << synthesis, debouncer, server >>

\* the chains buildListener is given: SNI hosts with and without "*",
\* destination CIDRs with and without a usable prefix, an explicit match,
\* a TLS context with ALPN protocols, listener filters with repeated names
BuildListenerChains ==
    LET chain(sni, cidrs) == ChainOpts(sni, cidrs, FALSE, "", <<>>)
    IN { chain(<<>>, <<>>),
         chain(<<"b.com", "a.com">>, <<>>),
         chain(<<"a.com", "*">>, <<>>),
         chain(<<>>, <<"", "0.0.0.0">>),
         chain(<<>>, <<"10.1.0.0/16", "10.0.0.1">>),
         chain(<<"*">>, <<"::">>),
         [chain(<<>>, <<>>) EXCEPT !.match = EmptyMatch],
         [chain(<<>>, <<>>) EXCEPT !.alpn = TRUE,
                                   !.listenerFilters = <<"envoy.listener.tls_inspector">>],
         [chain(<<>>, <<>>) EXCEPT !.listenerFilters = <<"envoy.listener.original_dst",
                                                         "envoy.listener.tls_inspector">>],
         [chain(<<>>, <<>>) EXCEPT !.listenerFilters = <<"envoy.listener.original_dst",
                                                         "envoy.listener.original_dst">>] }

CallBuildListener ==
    \E chains \in SeqsUpTo(BuildListenerChains, MaxChains) :
        LET opts == ListenerOpts(WildcardAddress, 80, FALSE, chains, TRUE)
        IN /\ call = NoCall
           /\ call' = [fn |-> "buildListener", opts |-> opts, result |-> buildListener(opts)]
           /\ UNCHANGED << synthesis, debouncer, server >>

CallSpec ==
    CallInit /\ [][\/ CallBuildCompleteFilterChain
                   \/ CallBuildListener
                   \/ CallGenerateManagementListeners
                   \/ CallBuildSidecarInboundListeners
                   \/ CallGetActualWildcardAndLocalHost
                   \/ CallServiceValidate]_vars

(***************************************************************************)
(* handleUpdates / debounce (validation.go).  Time is counted in ticks of  *)
(* the clock.  ConfigUpdate sends a request on pushChannel; debounce takes *)
(* it from the channel (ReceiveEvent) or takes the time the timer sent     *)
(* (TimerFires); the timer may be taken up to MaxLag ticks after it fired. *)
(***************************************************************************)
\* model.PushRequest.Merge
Merge(a, b) ==
    IF a.isNil THEN b ELSE IF b.isNil THEN a ELSE PushRequest(a.Full \/ b.Full)

DebounceInit ==
    /\ SynthesisInit({[IPAddresses |-> <<"10.9.9.9">>, noneMode |-> FALSE,
                       sidecarUID |-> "1337", allowAny |-> FALSE,
                       hasCustomIngressListeners |-> FALSE, Type |-> "SidecarProxy"]},
                     {[restrictPodIPTrafficLoops |-> FALSE, enableFallthroughRoute |-> TRUE,
                       pluginTCP |-> <<>>, pluginError |-> FALSE, proxyHttpPort |-> 0,
                       ProxyListenPort |-> 15001, ProxyInboundListenPort |-> 15006,
                       userFilters |-> <<>>, RefreshDuration |-> 0]})
    /\ call = NoCall
    /\ ServerIdle
    /\ now = 0
    /\ DebounceAfter \in {1, 2}
    /\ DebounceMax \in {2, 3}
    /\ enableEDSDebounce \in BOOLEAN
    /\ pushChannel = <<>>
    /\ sent = 0
    /\ timeChan = NoTimer
    /\ startDebounce = 0
    /\ lastConfigUpdateTime = 0
    /\ debouncedEvents = 0
    /\ req = NoRequest
    /\ pushCounter = 0
    /\ stopped = FALSE
    /\ pending = <<>>
    /\ fnCalls = <<>>

\* ConfigUpdate: s.pushChannel <- req
ConfigUpdate ==
    \E full \in BOOLEAN :
        /\ sent < MaxEvents
        /\ Len(pushChannel) < PushChannelSize
        /\ pushChannel' = Append(pushChannel, PushRequest(full))
        /\ sent' = sent + 1
        /\ UNCHANGED << synthesis, call, server, now, DebounceAfter, DebounceMax,
                        enableEDSDebounce, timeChan, startDebounce, lastConfigUpdateTime,
                        debouncedEvents, req, pushCounter, stopped, pending, fnCalls >>

\* debounce, case r := <-ch
ReceiveEvent ==
    /\ ~stopped
    /\ pushChannel # <<>>
    /\ pushChannel' = Tail(pushChannel)
    /\ LET r == Head(pushChannel)
       IN IF ~enableEDSDebounce /\ ~r.Full
          THEN /\ fnCalls' = Append(fnCalls, [req |-> r, at |-> now])
               /\ UNCHANGED << timeChan, startDebounce, lastConfigUpdateTime,
                               debouncedEvents, req, pending >>
          ELSE /\ lastConfigUpdateTime' = now
               /\ IF debouncedEvents = 0
                  THEN /\ timeChan' = After(now, DebounceAfter)
                       /\ startDebounce' = now
                  ELSE UNCHANGED << timeChan, startDebounce >>
               /\ debouncedEvents' = debouncedEvents + 1
               /\ req' = Merge(req, r)
               /\ pending' = Append(pending, now)
               /\ UNCHANGED fnCalls
    /\ UNCHANGED << synthesis, call, server, now, DebounceAfter, DebounceMax,
                    enableEDSDebounce, sent, pushCounter, stopped >>

\* it has been too long or quiet enough
TooLongOrQuiet(eventDelay, quietTime) ==
    eventDelay >= DebounceMax \/ quietTime >= DebounceAfter

\* a timer case that calls fn and keeps the debounced request
TimerFiresKeepingRequest ==
    /\ ~stopped
    /\ timeChan.armed
    /\ timeChan.at <= now
    /\ \E t \in timeChan.at..now :
          LET eventDelay == t - startDebounce
              quietTime == t - lastConfigUpdateTime
          IN IF TooLongOrQuiet(eventDelay, quietTime)
             THEN /\ pushCounter' = pushCounter + 1
                  /\ fnCalls' = Append(fnCalls, [req |-> req, at |-> now])
                  /\ debouncedEvents' = 0
                  /\ timeChan' = NoTimer
                  /\ pending' = <<>>
                  /\ UNCHANGED req
             ELSE /\ timeChan' = After(now, DebounceAfter - quietTime)
                  /\ UNCHANGED << pushCounter, fnCalls, req, debouncedEvents, pending >>
    /\ UNCHANGED << synthesis, call, server, now, DebounceAfter, DebounceMax,
                    enableEDSDebounce, pushChannel, sent, startDebounce,
                    lastConfigUpdateTime, stopped >>

\* debounce, case now := <-timeChan; t is the time the timer sent
TimerFires ==
    /\ ~stopped
    /\ timeChan.armed
    /\ timeChan.at <= now
    /\ \E t \in timeChan.at..now :
          LET eventDelay == t - startDebounce
              quietTime == t - lastConfigUpdateTime
          IN IF TooLongOrQuiet(eventDelay, quietTime)
             THEN /\ pushCounter' = pushCounter + 1
                  /\ fnCalls' = Append(fnCalls, [req |-> req, at |-> now])
                  /\ req' = NoRequest
                  /\ debouncedEvents' = 0
                  /\ timeChan' = NoTimer
                  /\ pending' = <<>>
             ELSE /\ timeChan' = After(now, DebounceAfter - quietTime)
                  /\ UNCHANGED << pushCounter, fnCalls, req, debouncedEvents, pending >>
    /\ UNCHANGED << synthesis, call, server, now, DebounceAfter, DebounceMax,
                    enableEDSDebounce, pushChannel, sent, startDebounce,
                    lastConfigUpdateTime, stopped >>

\* debounce, case <-stopCh
Stop ==
    /\ ~stopped
    /\ stopped' = TRUE
    /\ UNCHANGED << synthesis, call, server, now, DebounceAfter, DebounceMax,
                    enableEDSDebounce, pushChannel, sent, timeChan, startDebounce,
                    lastConfigUpdateTime, debouncedEvents, req, pushCounter, pending,
                    fnCalls >>

\* time passes; a timer that has fired is taken at most MaxLag ticks later
Tick ==
    /\ now < MaxTime
    /\ (~stopped /\ timeChan.armed /\ timeChan.at <= now) => now - timeChan.at < MaxLag
    /\ now' = now + 1
    /\ UNCHANGED << synthesis, call, server, DebounceAfter, DebounceMax,
                    enableEDSDebounce, pushChannel, sent, timeChan, startDebounce,
                    lastConfigUpdateTime, debouncedEvents, req, pushCounter, stopped,
                    pending, fnCalls >>

DebounceSpec ==
    DebounceInit /\ [][\/ ConfigUpdate
                       \/ ReceiveEvent
                       \/ TimerFires
                       \/ Stop
                       \/ Tick]_vars

\* the timer channel delivers and time passes: a timer that is due is
\* taken by the select of debounce, and the clock does not stand still
DebounceLiveSpec == DebounceSpec /\ WF_vars(TimerFires) /\ WF_vars(Tick)

(***************************************************************************)
(* DiscoveryServer.Push (validation.go).  Every call runs in a goroutine   *)
(* of its own (go s.Push(req)); a goroutine is a record of pushers: its    *)
(* request, its position, the push context it created (its index) and its *)
(* versionLocal.  InitContext and updateServiceShards succeed or fail.  A  *)
(* Push that is not full reads the version and then the push context, each *)
(* under its own lock, and starts AdsPushAll after the second lock is      *)
(* released, so a full Push can run between any two of the three steps.    *)
(***************************************************************************)
Pusher(r) ==
    [req |-> r, pc |-> "start", versionLocal |-> InitialVersion, pushLocal |-> 0,
     failed |-> FALSE, passed |-> FALSE]

PushInit ==
    /\ SynthesisInit({[IPAddresses |-> <<"10.9.9.9">>, noneMode |-> FALSE,
                       sidecarUID |-> "1337", allowAny |-> FALSE,
                       hasCustomIngressListeners |-> FALSE, Type |-> "SidecarProxy"]},
                     {[restrictPodIPTrafficLoops |-> FALSE, enableFallthroughRoute |-> TRUE,
                       pluginTCP |-> <<>>, pluginError |-> FALSE, proxyHttpPort |-> 0,
                       ProxyListenPort |-> 15001, ProxyInboundListenPort |-> 15006,
                       userFilters |-> <<>>, RefreshDuration |-> d] : d \in {0, 1}})
    /\ call = NoCall
    /\ DebouncerIdle
    /\ ServerIdle

\* handleUpdates: go s.Push(req)
GoPush ==
    \E full \in BOOLEAN :
        /\ Len(pushers) < MaxPushes
        /\ pushers' = Append(pushers, Pusher(PushRequest(full)))
        /\ UNCHANGED << synthesis, call, debouncer, PushContext, version, versionNum,
                        adsPushes, sender >>

\* a push that goes on after updateServiceShards whatever it returned
AfterUpdateServiceShardsAlways(err) == "setctx"

\* where Push goes after updateServiceShards returned
AfterUpdateServiceShards(err) == IF err THEN "done" ELSE "setctx"

\* one step of the goroutine i
PushStep(i) ==
    LET p == pushers[i]
    IN \/ /\ p.pc = "start"        \* not full: versionInfo() reads version
          /\ ~p.req.Full
          /\ pushers' = [pushers EXCEPT ![i].pc = "ctx", ![i].versionLocal = version]
          /\ UNCHANGED << PushContext, version, versionNum, adsPushes >>
       \/ /\ p.pc = "ctx"          \* globalPushContext() reads Env.PushContext
          /\ pushers' = [pushers EXCEPT ![i].pc = "go", ![i].pushLocal = PushContext]
          /\ UNCHANGED << PushContext, version, versionNum, adsPushes >>
       \/ /\ p.pc = "go"           \* go s.AdsPushAll with what was read
          /\ adsPushes' = Append(adsPushes, [version |-> p.versionLocal, push |-> p.pushLocal,
                                             req |-> p.req, by |-> i])
          /\ pushers' = [pushers EXCEPT ![i].pc = "done"]
          /\ UNCHANGED << PushContext, version, versionNum >>
       \/ /\ p.pc = "start"        \* push := model.NewPushContext(); InitContext
          /\ p.req.Full
          /\ \E err \in BOOLEAN :
                pushers' = [pushers EXCEPT ![i].pc = IF err THEN "done" ELSE "shards",
                                           ![i].pushLocal = i,
                                           ![i].failed = err]
          /\ UNCHANGED << PushContext, version, versionNum, adsPushes >>
       \/ /\ p.pc = "shards"
          /\ \E err \in BOOLEAN :
                pushers' = [pushers EXCEPT ![i].pc = AfterUpdateServiceShards(err),
                                           ![i].failed = err, ![i].passed = ~err]
          /\ UNCHANGED << PushContext, version, versionNum, adsPushes >>
       \/ /\ p.pc = "setctx"
          /\ PushContext' = p.pushLocal
          /\ pushers' = [pushers EXCEPT ![i].pc = "version"]
          /\ UNCHANGED << version, versionNum, adsPushes >>
       \/ /\ p.pc = "version"
          /\ pushers' = [pushers EXCEPT ![i].pc = "inc",
                                        ![i].versionLocal = VersionString(now, versionNum)]
          /\ UNCHANGED << PushContext, version, versionNum, adsPushes >>
       \/ /\ p.pc = "inc"
          /\ versionNum' = versionNum + 1
          /\ pushers' = [pushers EXCEPT ![i].pc = "setversion"]
          /\ UNCHANGED << PushContext, version, adsPushes >>
       \/ /\ p.pc = "setversion"
          /\ version' = p.versionLocal
          /\ pushers' = [pushers EXCEPT ![i].pc = "ads"]
          /\ UNCHANGED << PushContext, versionNum, adsPushes >>
       \/ /\ p.pc = "ads"
          /\ adsPushes' = Append(adsPushes, [version |-> p.versionLocal, push |-> p.pushLocal,
                                             req |-> p.req, by |-> i])
          /\ pushers' = [pushers EXCEPT ![i].pc = "done"]
          /\ UNCHANGED << PushContext, version, versionNum >>

PushGoroutine ==
    \E i \in DOMAIN pushers :
        /\ PushStep(i)
        /\ UNCHANGED << synthesis, call, debouncer, sender >>

(***************************************************************************)
(* Start, sendPushes / doSendPushes and checkProxyNeedsFullPush.  A client *)
(* is named by the first IP address of its proxy.                          *)
(***************************************************************************)
\* close(stopCh)
CloseStop ==
    /\ ~stopCh
    /\ stopCh' = TRUE
    /\ UNCHANGED << synthesis, call, debouncer, PushContext, version, versionNum, pushers,
                    adsPushes, returned, refresher, sendPushes, semaphore, pushQueue,
                    senders, proxyUpdates, proxyUpdatesMutex, closed >>

\* handleUpdates / debounce and periodicRefreshMetrics: case <-stopCh
ReturnOnStop ==
    \E g \in {"handleUpdates", "periodicRefreshMetrics"} \ returned :
        /\ stopCh
        /\ returned' = returned \cup {g}
        /\ UNCHANGED << synthesis, call, debouncer, PushContext, version, versionNum,
                        pushers, adsPushes, stopCh, refresher, sendPushes, semaphore,
                        pushQueue, senders, proxyUpdates, proxyUpdatesMutex, closed >>

\* periodicRefresh, one step.  Without a refresh duration it returns at
\* once.  On a tick of its ticker it reads the version and then the push
\* context, each under its own lock, and then calls AdsPushAll for a full
\* push with what it read; on stopCh it returns.
PeriodicRefresh ==
    /\ "periodicRefresh" \notin returned
    /\ \/ /\ refresher.pc = "start"
          /\ env.RefreshDuration = 0
          /\ returned' = returned \cup {"periodicRefresh"}
          /\ UNCHANGED << refresher, adsPushes >>
       \/ /\ refresher.pc = "start"
          /\ env.RefreshDuration # 0
          /\ refresher' = [refresher EXCEPT !.pc = "select"]
          /\ UNCHANGED << returned, adsPushes >>
       \/ /\ refresher.pc = "select"      \* case <-ticker.C: versionInfo()
          /\ refresher.ticks < MaxTicks
          /\ refresher' = [refresher EXCEPT !.pc = "ctx", !.versionLocal = version,
                                            !.ticks = @ + 1]
          /\ UNCHANGED << returned, adsPushes >>
       \/ /\ refresher.pc = "ctx"         \* globalPushContext() reads Env.PushContext
          /\ refresher' = [refresher EXCEPT !.pc = "call", !.pushLocal = PushContext]
          /\ UNCHANGED << returned, adsPushes >>
       \/ /\ refresher.pc = "call"        \* s.AdsPushAll with what was read
          /\ adsPushes' = Append(adsPushes,
                              [version |-> refresher.versionLocal,
                               push |-> refresher.pushLocal,
                               req |-> PushRequest(TRUE), by |-> 0])
          /\ refresher' = [refresher EXCEPT !.pc = "select"]
          /\ UNCHANGED returned
       \/ /\ refresher.pc = "select"      \* case <-stopCh
          /\ stopCh
          /\ returned' = returned \cup {"periodicRefresh"}
          /\ UNCHANGED << refresher, adsPushes >>
    /\ UNCHANGED << synthesis, call, debouncer, PushContext, version, versionNum, pushers,
                    stopCh, sendPushes, semaphore, pushQueue, senders, proxyUpdates,
                    proxyUpdatesMutex, closed >>

\* queue.Enqueue: a push for a client is waiting in the push queue; max
\* pushes are enqueued in all
Enqueue(max) ==
    \E c \in {"10.0.0.1", "10.9.9.9"}, full \in BOOLEAN :
        /\ Len(pushQueue) + Len(senders) < max
        /\ pushQueue' = Append(pushQueue, [client |-> c, full |-> full])
        /\ UNCHANGED << synthesis, call, debouncer, PushContext, version, versionNum,
                        pushers, adsPushes, stopCh, returned, refresher, sendPushes,
                        semaphore, senders, proxyUpdates, proxyUpdatesMutex, closed >>

\* a read of the semaphore that takes nothing out of it
doneFuncKeepingSlot(sem) == sem

\* doneFunc: <-semaphore
doneFunc(sem) == sem - 1

\* a channel that takes every send
CanSendAlways(sem) == TRUE

\* semaphore <- struct{}{} returns: the channel holds fewer values than
\* its capacity
CanSend(sem) == sem < PushThrottle

\* a mutex that is given to everyone who asks
CanLockAlways(mutex) == TRUE

\* proxyUpdatesMutex.Lock() returns
CanLock(mutex) == mutex = 0

\* doSendPushes: one step of its loop
SendPushes ==
    /\ \/ /\ sendPushes = "select"
          /\ sendPushes' = IF stopCh THEN "returned" ELSE "acquire"
          /\ UNCHANGED << semaphore, pushQueue, senders >>
       \/ /\ sendPushes = "acquire"
          /\ CanSend(semaphore)
          /\ semaphore' = semaphore + 1
          /\ sendPushes' = "dequeue"
          /\ UNCHANGED << pushQueue, senders >>
       \/ /\ sendPushes = "dequeue"
          /\ pushQueue # <<>>
          /\ pushQueue' = Tail(pushQueue)
          /\ senders' = Append(senders,
                [client |-> Head(pushQueue).client,
                 pc |-> IF Head(pushQueue).full THEN "send" ELSE "lock",
                 full |-> FALSE, called |-> FALSE, proxyFull |-> Head(pushQueue).full,
                 released |-> 0])
          /\ sendPushes' = "select"
          /\ UNCHANGED semaphore
    /\ UNCHANGED << synthesis, call, debouncer, PushContext, version, versionNum, pushers,
                    adsPushes, stopCh, returned, refresher, proxyUpdates, proxyUpdatesMutex,
                    closed >>

\* the goroutine of push i: checkProxyNeedsFullPush(node) unless info.full,
\* then the select that hands the event to the client or sees its stream
\* closed; full is the local variable of checkProxyNeedsFullPush
SendGoroutine(i) ==
    LET g == senders[i]
    IN /\ \/ /\ g.pc = "lock"
             /\ CanLock(proxyUpdatesMutex)
             /\ proxyUpdatesMutex' = i
             /\ senders' = [senders EXCEPT ![i].pc = "test"]
             /\ UNCHANGED << semaphore, proxyUpdates >>
          \/ /\ g.pc = "test"
             /\ senders' = [senders EXCEPT ![i].pc = IF g.client \in proxyUpdates
                                                      THEN "delete" ELSE "unlock"]
             /\ UNCHANGED << semaphore, proxyUpdates, proxyUpdatesMutex >>
          \/ /\ g.pc = "delete"
             /\ proxyUpdates' = proxyUpdates \ {g.client}
             /\ senders' = [senders EXCEPT ![i].full = TRUE, ![i].pc = "unlock"]
             /\ UNCHANGED << semaphore, proxyUpdatesMutex >>
          \/ /\ g.pc = "unlock"
             /\ proxyUpdatesMutex' = 0
             /\ senders' = [senders EXCEPT ![i].called = TRUE, ![i].proxyFull = g.full,
                                            ![i].pc = "send"]
             /\ UNCHANGED << semaphore, proxyUpdates >>
          \/ /\ g.pc = "send"
             /\ senders' = [senders EXCEPT ![i].pc = "handed"]
             /\ UNCHANGED << semaphore, proxyUpdates, proxyUpdatesMutex >>
          \/ /\ g.pc = "send"
             /\ g.client \in closed
             /\ semaphore > 0
             /\ semaphore' = doneFunc(semaphore)
             /\ senders' = [senders EXCEPT ![i].pc = "closed", ![i].released = @ + 1]
             /\ UNCHANGED << proxyUpdates, proxyUpdatesMutex >>
       /\ UNCHANGED << synthesis, call, debouncer, PushContext, version, versionNum,
                       pushers, adsPushes, stopCh, returned, refresher, sendPushes,
                       pushQueue, closed >>

\* the client that took event i from its push channel has pushed and calls
\* the done function of the event, and is through with the event
ClientDone(i) ==
    /\ i \in DOMAIN senders
    /\ senders[i].pc = "handed"
    /\ semaphore > 0
    /\ semaphore' = doneFunc(semaphore)
    /\ senders' = [senders EXCEPT ![i].pc = "done", ![i].released = @ + 1]
    /\ UNCHANGED << synthesis, call, debouncer, PushContext, version, versionNum, pushers,
                    adsPushes, stopCh, returned, refresher, sendPushes, pushQueue,
                    proxyUpdates, proxyUpdatesMutex, closed >>

\* the client side: a proxy is marked for a full push, a stream is closed,
\* a client calls the done function of an event it was handed
Client ==
    \/ /\ \/ \E c \in {"10.0.0.1", "10.9.9.9"} \ proxyUpdates :
                /\ CanLock(proxyUpdatesMutex)
                /\ proxyUpdates' = proxyUpdates \cup {c}
                /\ UNCHANGED closed
          \/ \E c \in {"10.0.0.1", "10.9.9.9"} \ closed :
                /\ closed' = closed \cup {c}
                /\ UNCHANGED proxyUpdates
       /\ UNCHANGED << synthesis, call, debouncer, PushContext, version, versionNum,
                       pushers, adsPushes, stopCh, returned, refresher, sendPushes,
                       semaphore, pushQueue, senders, proxyUpdatesMutex >>
    \/ \E i \in DOMAIN senders : ClientDone(i)

\* the Push goroutines next to periodicRefresh
PushSpec == PushInit /\ [][GoPush \/ PushGoroutine \/ PeriodicRefresh]_vars

\* doSendPushes, the goroutines it starts and the clients, for MaxCalls
\* pushes
SendSpec ==
    PushInit /\ [][\/ Enqueue(MaxCalls)
                   \/ SendPushes
                   \/ \E i \in DOMAIN senders : SendGoroutine(i)
                   \/ Client]_vars

\* a server without periodic refresh
ThrottleInit ==
    /\ PushInit
    /\ env.RefreshDuration = 0

\* the same for MaxQueued pushes, which are more than the semaphore holds,
\* to one client that is not marked for a full push meanwhile; every
\* goroutine that can take a step is scheduled, and a client that was
\* handed an event calls its done function
ThrottleSpec ==
    /\ ThrottleInit
    /\ [][\/ Enqueue(MaxQueued) /\ \A k \in DOMAIN pushQueue' : pushQueue'[k].client = "10.0.0.1"
          \/ SendPushes
          \/ \E i \in DOMAIN senders : SendGoroutine(i)
          \/ Client /\ UNCHANGED proxyUpdates]_vars
    /\ WF_vars(SendPushes)
    /\ \A i \in 1..MaxQueued : WF_vars(i \in DOMAIN senders /\ SendGoroutine(i))
    /\ \A i \in 1..MaxQueued : WF_vars(ClientDone(i))

\* Start with a stopCh that may be closed; the scheduler runs every
\* goroutine that can take a step
StopSpec ==
    /\ PushInit
    /\ [][\/ CloseStop
          \/ ReturnOnStop
          \/ PeriodicRefresh
          \/ Enqueue(MaxCalls)
          \/ SendPushes
          \/ \E i \in DOMAIN senders : SendGoroutine(i)
          \/ Client]_vars
    /\ WF_vars(ReturnOnStop)
    /\ WF_vars(PeriodicRefresh)
    /\ WF_vars(SendPushes)
    /\ WF_vars(\E i \in DOMAIN senders : SendGoroutine(i))

(***************************************************************************)
(* Properties.                                                             *)
(***************************************************************************)
\* the step processes an HTTP or TCP unit that reaches the registry
ResolveStep ==
    /\ last'.op = "unit"
    /\ last'.proto \in {"HTTP", "TCP"}
    /\ rule.catchAll => validatePort(node, last'.port, rule.bindToPort)

\* the state follows the processing of an HTTP or TCP unit that reached the registry
Resolved ==
    /\ last.op = "unit"
    /\ last.proto \in {"HTTP", "TCP"}
    /\ rule.catchAll => validatePort(node, last.port, rule.bindToPort)
    /\ pc \in {"explicit", "catchall"}

Address(l) == <<l.bind, l.port>>

WildcardChains(l) ==
    { i \in DOMAIN l.FilterChains : IsWildcardMatch(l.FilterChains[i].FilterChainMatch) }

\* C1: the final listener set never contains two listeners with the same
\* (bind address, port).
C1_NoTwoListenersOnOneAddress ==
    pc = "managed" =>
        \A i, j \in DOMAIN final : i # j => Address(final[i]) # Address(final[j])

\* C2: every listener of the registry has at most one filter chain whose
\* match is nil or empty.
C2_AtMostOneUnconditionalChain ==
    \A k \in DOMAIN listenerMap :
        Cardinality(WildcardChains(listenerMap[k].listener)) <= 1

\* C3: an HTTP or TCP unit whose key maps to a locked entry changes neither
\* the registry nor the push status.
C3_LockedEntryIsUntouched ==
    [][ (/\ ResolveStep
         /\ last'.key \in DOMAIN listenerMap
         /\ listenerMap[last'.key].locked)
        => (listenerMap' = listenerMap /\ push' = push) ]_vars

C3_Witness ==
    /\ Resolved
    /\ last.key \in DOMAIN listenerMap
    /\ listenerMap[last.key].locked
    /\ last.host \notin Range(listenerMap[last.key].services)

\* C4: a unit of the other protocol family arriving on an unlocked key
\* leaves the incumbent's filter chains and contributing services as they were.
C4_CrossProtocolLeavesIncumbent ==
    [][ (/\ ResolveStep
         /\ last'.key \in DOMAIN listenerMap
         /\ ~listenerMap[last'.key].locked
         /\ listenerMap[last'.key].servicePort.proto # last'.proto)
        => (/\ listenerMap'[last'.key].listener = listenerMap[last'.key].listener
            /\ listenerMap'[last'.key].services = listenerMap[last'.key].services) ]_vars

\* the step merges an HTTP or TCP unit into an unlocked entry of its own family
MergeStep(family) ==
    /\ ResolveStep
    /\ last'.proto = family
    /\ last'.key \in DOMAIN listenerMap
    /\ ~listenerMap[last'.key].locked
    /\ listenerMap[last'.key].servicePort.proto = family

Merged(family) ==
    /\ Resolved
    /\ last.proto = family
    /\ last.key \in DOMAIN listenerMap
    /\ ~listenerMap[last.key].locked
    /\ listenerMap[last.key].servicePort.proto = family
    /\ listenerMap[last.key].services[1] # last.host

\* C5: an HTTP unit merged into an unlocked HTTP entry adds no entry and
\* appends its service to the contributing services of the entry.
C5_HTTPMergeRecordsBothServices ==
    [][ MergeStep("HTTP")
        => (/\ DOMAIN listenerMap' = DOMAIN listenerMap
            /\ listenerMap'[last'.key].services
                   = Append(listenerMap[last'.key].services, last'.host)) ]_vars

C5_Witness ==
    /\ Merged("HTTP")
    /\ Len(listenerMap[last.key].services) = 2
    /\ listenerMap[last.key].services[2] = last.host

IsPrefix(a, b) == Len(a) <= Len(b) /\ SubSeq(b, 1, Len(a)) = a

\* the chains of l that route to service h
ChainsOf(l, h) ==
    { i \in DOMAIN l.FilterChains : TcpProxyFilter(h) \in Range(l.FilterChains[i].Filters) }

ServiceChains(l) == UNION { ChainsOf(l, h) : h \in Hostnames }

IsCidr(a) == AddrForm(a).slash

\* C6: a TCP unit of a CIDR service merged into an unlocked TCP entry whose
\* services have other CIDRs keeps the chains of the entry, appends every
\* chain of the unit restricted to its CIDR, records the service, and the
\* services' chains of the listener have pairwise distinct matches.
C6_DisjointCidrChainsAreMerged ==
    [][ (/\ MergeStep("TCP")
         /\ rule.bind = ""
         /\ IsCidr(ServiceOf(last'.host).address)
         /\ \A h \in Range(listenerMap[last'.key].services) :
               IsCidr(ServiceOf(h).address)
               /\ ServiceOf(h).address # ServiceOf(last'.host).address)
        => LET old == listenerMap[last'.key]
               new == listenerMap'[last'.key]
               own == ChainsOf(new.listener, last'.host)
           IN /\ DOMAIN listenerMap' = DOMAIN listenerMap
              /\ IsPrefix(old.listener.FilterChains, new.listener.FilterChains)
              /\ IsPrefix(old.services, new.services)
              /\ last'.host \in Range(new.services)
              /\ Cardinality(own) = IF ServiceOf(last'.host).tls = <<>> THEN 1
                                    ELSE Len(ServiceOf(last'.host).tls)
              /\ \A i \in own :
                    new.listener.FilterChains[i].FilterChainMatch.PrefixRanges
                        = <<ConvertAddressToCidr(ServiceOf(last'.host).address)>>
              /\ \A i, j \in ServiceChains(new.listener) :
                    i # j => new.listener.FilterChains[i].FilterChainMatch
                                # new.listener.FilterChains[j].FilterChainMatch ]_vars

C6_Witness ==
    /\ Merged("TCP")
    /\ rule.bind = ""
    /\ LET e == listenerMap[last.key]
       IN /\ e.services[1] = "c.com"
          /\ last.host = "d.com"
          /\ ChainsOf(e.listener, "c.com") # {}
          /\ Cardinality(ChainsOf(e.listener, "d.com")) = 2

\* the matches of the chains that the service of a TCP unit contributes
OwnMatches(r, svc, port, n) ==
    LET o == buildSidecarOutboundTCPListenerOptsForPortOrUDS(
                 EmptyMap, <<>>, ListenerOpts(r.bind, port, r.bindToPort, <<>>, FALSE),
                 Params(svc, Port(port, "TCP")), actualWildcard(n))
    IN { BuildMatch(o.chains[i]) : i \in DOMAIN o.chains }

\* m is nil and some chain has a nil match, or m equals the match of some chain
IdenticalMatchIn(m, fcs) ==
    \E i \in DOMAIN fcs :
        \/ m.isNil /\ fcs[i].FilterChainMatch.isNil
        \/ ~m.isNil /\ ~fcs[i].FilterChainMatch.isNil /\ fcs[i].FilterChainMatch = m

\* C7: a TCP unit whose chains all have a match identical to the match of a
\* chain of the unlocked TCP entry (both nil, or equal) leaves the chains
\* and the contributing services of the entry as they were and records a
\* TCP-over-TCP conflict naming the unit's service.
C7_IdenticalMatchIsRejected ==
    [][ (/\ MergeStep("TCP")
         /\ \A m \in OwnMatches(rule, ServiceOf(last'.host), last'.port, node) :
               IdenticalMatchIn(m, listenerMap[last'.key].listener.FilterChains))
        => (/\ listenerMap'[last'.key].listener = listenerMap[last'.key].listener
            /\ listenerMap'[last'.key].services = listenerMap[last'.key].services
            /\ Len(push') > Len(push)
            /\ \A i \in (Len(push) + 1)..Len(push') :
                  /\ push'[i].metric = "TCPOverTCP"
                  /\ push'[i].newHostname = last'.host
                  /\ push'[i].listenerName = last'.key) ]_vars

\* both kinds of identical match were rejected: nil against nil, equal against equal
C7_Witness ==
    /\ Merged("TCP")
    /\ last.host \notin Range(listenerMap[last.key].services)
    /\ push # <<>>
    /\ push[Len(push)].metric = "TCPOverTCP"
    /\ push[Len(push)].newHostname = last.host
    /\ \A m \in OwnMatches(rule, ServiceOf(last.host), last.port, node) :
          IdenticalMatchIn(m, listenerMap[last.key].listener.FilterChains)

\* C8: a second synthesis on the same proxy, scope and catalog returns the
\* same listeners in the same order.
C8_ResynthesisIsIdentical ==
    pc = "resynthesized" => out2 = out

\* C9: the match built from a set of SNI hosts and a set of destination
\* CIDRs is the same whatever the order they are supplied in, and no
\* listener of the registry holds two chains with different filters whose
\* matches have the same set of SNI hosts and the same set of destination
\* prefixes: the later one was rejected as a duplicate.
C9_SameSetsCompareEqual ==
    /\ (last.op = "unit" /\ last.proto = "TCP")
        => \A hosts \in {{}} \cup { Range(r) : r \in Range(ServiceOf(last.host).tls) } :
              LET cidrs == {ServiceOf(last.host).address} \cup Range(node.IPAddresses)
                  m == BuildMatch(ChainOpts(SeqOfSet(hosts), SeqOfSet(cidrs), FALSE, "", <<>>))
              IN \A h \in Perms(hosts), c \in Perms(cidrs) :
                    BuildMatch(ChainOpts(h, c, FALSE, "", <<>>)) = m
    /\ \A k \in DOMAIN listenerMap :
          LET fcs == listenerMap[k].listener.FilterChains
          IN \A i, j \in DOMAIN fcs :
                (/\ i < j
                 /\ fcs[i].Filters # fcs[j].Filters
                 /\ ~fcs[i].FilterChainMatch.isNil
                 /\ ~fcs[j].FilterChainMatch.isNil)
                => ~(/\ Range(fcs[i].FilterChainMatch.ServerNames)
                           = Range(fcs[j].FilterChainMatch.ServerNames)
                     /\ Range(fcs[i].FilterChainMatch.PrefixRanges)
                           = Range(fcs[j].FilterChainMatch.PrefixRanges))

\* a unit whose SNI hosts are those of an accepted chain in another order
\* was rejected
C9_Witness ==
    /\ Merged("TCP")
    /\ last.host \notin Range(listenerMap[last.key].services)
    /\ \E h \in Range(listenerMap[last.key].services) :
          \E a \in Range(ServiceOf(h).tls), b \in Range(ServiceOf(last.host).tls) :
              /\ a # b
              /\ Range(a) = Range(b)
              /\ \E i \in ChainsOf(listenerMap[last.key].listener, h) :
                    Range(listenerMap[last.key].listener.FilterChains[i]
                              .FilterChainMatch.ServerNames) = Range(b)
    /\ \E i \in DOMAIN push : push[i].metric = "TCPOverTCP" /\ push[i].newHostname = last.host

\* C10: every entry is locked when the first unit of the catch-all egress
\* listener is processed; a locked entry stays locked; an entry created for
\* an absent key is unlocked and has the creating service as its only
\* contributor.
C10_TwoPhaseLock ==
    [][ /\ (last'.op = "unit" /\ rule.catchAll /\ ruleDone = {})
            => \A k \in DOMAIN listenerMap : listenerMap[k].locked
        /\ \A k \in DOMAIN listenerMap :
              k \in DOMAIN listenerMap'
              /\ (listenerMap[k].locked => listenerMap'[k].locked)
        /\ \A k \in DOMAIN listenerMap' \ DOMAIN listenerMap :
              /\ ~listenerMap'[k].locked
              /\ listenerMap'[k].services = <<last'.host>> ]_vars

C10_Witness ==
    /\ pc = "catchall"
    /\ last.op = "unit"
    /\ \E k \in DOMAIN listenerMap : listenerMap[k].locked
    /\ last.key \in DOMAIN listenerMap
    /\ ~listenerMap[last.key].locked
    /\ listenerMap[last.key].services = <<last.host>>

\* the events a step adds to the push status
NewEvents == { push'[i] : i \in (Len(push) + 1)..Len(push') }

\* the step rejects the unit, or a chain of it, on an unlocked key
RejectStep ==
    /\ ResolveStep
    /\ last'.key \in DOMAIN listenerMap
    /\ ~listenerMap[last'.key].locked
    /\ \/ listenerMap[last'.key].servicePort.proto # last'.proto
       \/ /\ last'.proto = "TCP"
          /\ \E m \in OwnMatches(rule, ServiceOf(last'.host), last'.port, node) :
                IdenticalMatchIn(m, listenerMap[last'.key].listener.FilterChains)

\* C11: a step that rejects a unit (cross-protocol), or a chain of a TCP
\* unit (identical match), on an unlocked key adds at least one conflict
\* event, and every event it adds carries the key, the contributing
\* services the entry had before the step, the hostname of the unit's
\* service and the metric of the kind of conflict.
C11_RejectionIsAudited ==
    [][ RejectStep
        => (/\ Len(push') > Len(push)
            /\ SubSeq(push', 1, Len(push)) = push
            /\ \A ev \in NewEvents :
                  /\ ev.listenerName = last'.key
                  /\ ev.currentServices = listenerMap[last'.key].services
                  /\ ev.newHostname = last'.host
                  /\ ev.metric =
                        IF listenerMap[last'.key].servicePort.proto = last'.proto
                        THEN "TCPOverTCP"
                        ELSE IF last'.proto = "HTTP" THEN "TCPOverHTTP"
                        ELSE "HTTPOverTCP") ]_vars

\* the ports around the limit of the privileged ports
PortsAroundLimit == (PrivilegedPortMax - 1)..(PrivilegedPortMax + 1)

\* C12: under the catch-all egress listener with bindToPort, a unit whose
\* port is 1024 or lower changes neither the registry nor the push status
\* unless the sidecar UID is "0"; a unit whose port is above 1024, or any
\* unit when bindToPort is false or the UID is "0", is not skipped: an
\* HTTP or TCP unit with an absent key creates the entry (in a workload
\* without user filters, whose failure is another early return).
C12_PrivilegedPortsNeedRoot ==
    [][ (last'.op = "unit" /\ rule.catchAll)
        => /\ (rule.bindToPort /\ last'.port <= PrivilegedPortMax /\ node.sidecarUID # "0")
                  => (listenerMap' = listenerMap /\ push' = push)
           /\ (/\ ~rule.bindToPort \/ last'.port > PrivilegedPortMax \/ node.sidecarUID = "0"
               /\ last'.proto \in {"HTTP", "TCP"}
               /\ last'.key \notin DOMAIN listenerMap)
                  => last'.key \in DOMAIN listenerMap'
           /\ \A p \in PortsAroundLimit :
                 /\ validatePort(node, p, FALSE)
                 /\ validatePort(node, p, TRUE)
                       = (p > PrivilegedPortMax \/ node.sidecarUID = "0") ]_vars

\* a unit on port 80 was skipped, a unit on port 9080 created its entry
C12_Witness ==
    /\ pc = "catchall"
    /\ rule.bindToPort
    /\ node.sidecarUID # "0"
    /\ last.op = "unit"
    /\ last.port <= PrivilegedPortMax
    /\ last.proto \in {"HTTP", "TCP"}
    /\ last.key \notin DOMAIN listenerMap
    /\ \E k \in DOMAIN listenerMap : k[2] > PrivilegedPortMax

\* C13: when the listener hook of a plugin returns an error, the listener
\* being built is not committed: an outbound unit with an absent key
\* creates no entry, an inbound unit returns no listener; the entries and
\* listeners built before are kept.
C13_HookErrorAbortsBuild ==
    [][ env.pluginError
        => /\ (ResolveStep /\ last'.key \notin DOMAIN listenerMap)
                 => listenerMap' = listenerMap
           /\ (last'.op = "inbound" /\ last'.proto \in {"HTTP", "TCP"}
                 /\ last'.key \notin DOMAIN inboundMap)
                 => (inbound' = inbound /\ inboundMap' = inboundMap)
           /\ \A k \in DOMAIN listenerMap :
                 k # last'.key => (k \in DOMAIN listenerMap' /\ listenerMap'[k] = listenerMap[k])
           /\ IsPrefix(inbound, inbound') ]_vars

\* C14: buildCompleteFilterChain returns an error whenever the final
\* filter list of a chain is empty: the chain is not an HTTP chain and has
\* neither network filters nor filters of the plugins.
C14_EmptyFilterListIsAnError ==
    call.fn = "buildCompleteFilterChain"
    => ((\E i \in DOMAIN call.opts.filterChainOpts :
            /\ ~call.opts.filterChainOpts[i].httpOpts
            /\ call.opts.filterChainOpts[i].networkFilters = <<>>
            /\ call.pluginTCP = <<>>)
        => call.result.err)

\* the step commits a newly built listener under a key the registry did not hold
CreateStep ==
    /\ ResolveStep
    /\ last'.key \notin DOMAIN listenerMap
    /\ last'.key \in DOMAIN listenerMap'

\* the first chain of l matches the addresses of the proxy and ends in the blackhole
BlackholeFirst(l) ==
    /\ Len(l.FilterChains) >= 1
    /\ l.FilterChains[1].Filters = <<blackhole>>
    /\ l.FilterChains[1].FilterChainMatch =
           BuildMatch(ChainOpts(<<>>, node.IPAddresses, FALSE, "", <<blackhole>>))

\* C15: a newly built outbound listener has the blackhole chain for the
\* addresses of the proxy as its first chain when, and only when, the
\* outbound traffic policy is ALLOW_ANY and the bind of the listener is the
\* wildcard address.
C15_BlackholeIffAllowAnyOnWildcard ==
    [][ CreateStep
        => (BlackholeFirst(listenerMap'[last'.key].listener)
            <=> (node.allowAny /\ listenerMap'[last'.key].bind = actualWildcard(node))) ]_vars

\* the pass-through chain: unconditional match, routed to the PassthroughCluster
PassthroughChains(l) ==
    { i \in DOMAIN l.FilterChains : passthroughFilter \in Range(l.FilterChains[i].Filters) }

\* C16: a step adds a pass-through chain to an outbound listener only when
\* the outbound traffic policy is ALLOW_ANY, the listener is bound to the
\* wildcard address, and neither the incumbent listener of the key nor the
\* chains the unit brings hold a chain with an absent or empty match.
C16_PassthroughOnlyOnWildcard ==
    [][ (/\ ResolveStep
         /\ last'.key \in DOMAIN listenerMap'
         /\ Cardinality(PassthroughChains(listenerMap'[last'.key].listener))
               > (IF last'.key \in DOMAIN listenerMap
                  THEN Cardinality(PassthroughChains(listenerMap[last'.key].listener))
                  ELSE 0))
        => (/\ node.allowAny
            /\ listenerMap'[last'.key].bind = actualWildcard(node)
            /\ last'.key \in DOMAIN listenerMap
                  => WildcardChains(listenerMap[last'.key].listener) = {}) ]_vars

\* the units of the script, up to n, that reach the inbound build with key k
\* and whose build succeeds: the protocol is one a listener can be built
\* for, and no user filter for the port of the listener fails
BuildableBefore(k, n) ==
    { j \in 1..n : /\ script[j].op = "inbound"
                   /\ ListenerKey(script[j].bind, script[j].port) = k
                   /\ ModelProtocolToListenerProtocol(script[j].proto) \in {"HTTP", "TCP"}
                   /\ \A f \in Range(env.userFilters) :
                         ~(f.portNumber = script[j].port /\ f.insert = "error") }

IsNotUserFilter(f) == f.name # "user"

FirstBuildable(k, n) == CHOOSE j \in BuildableBefore(k, n) : \A i \in BuildableBefore(k, n) : j <= i

\* C17: the inbound phase holds at most one listener per bind:port; the
\* listener and the entry of a key come from the first service instance of
\* that key whose build succeeded; a later instance with a key that is
\* taken changes neither the listeners nor the map and adds exactly one
\* conflict record with the key, the hostname of the entry and the
\* hostname of the instance.
C17_InboundFirstWins ==
    /\ \A i, j \in DOMAIN inbound : Address(inbound[i]) = Address(inbound[j]) => i = j
    /\ { Address(inbound[i]) : i \in DOMAIN inbound } = DOMAIN inboundMap
    /\ \A k \in DOMAIN inboundMap :
          /\ BuildableBefore(k, Len(script)) # {}
          /\ inboundMap[k] = script[FirstBuildable(k, Len(script))].host
          /\ \A i \in DOMAIN inbound :
                (Address(inbound[i]) = k
                 /\ ModelProtocolToListenerProtocol(script[FirstBuildable(k, Len(script))].proto) = "TCP")
                => SelectSeq(inbound[i].FilterChains[1].Filters, IsNotUserFilter)
                      = <<TcpProxyFilter(inboundMap[k])>>
    /\ \A n \in DOMAIN script :
          script[n].op = "inbound" =>
             LET k == ListenerKey(script[n].bind, script[n].port)
                 taken == BuildableBefore(k, n - 1) # {}
                 conflicts == { i \in DOMAIN push :
                                  /\ push[i].metric = "ConflictInboundListener"
                                  /\ push[i].newHostname = script[n].host }
             IN IF taken
                THEN /\ Cardinality(conflicts) = 1
                     /\ \A i \in conflicts :
                           /\ push[i].listenerName = k
                           /\ push[i].currentServices =
                                  <<script[FirstBuildable(k, n - 1)].host>>
                ELSE conflicts = {}

\* two instances of one key were processed: the first one holds the
\* listener, the second one left a conflict record
C17_Witness ==
    /\ Len(script) >= 2
    /\ last.op = "inbound"
    /\ last.key \in DOMAIN inboundMap
    /\ inboundMap[last.key] # last.host
    /\ Len(push) = 1
    /\ Len(inbound) = 1

RECURSIVE Pick(_, _, _)
\* the elements of seq at the indices of keep, from index i on, in order
Pick(seq, keep, i) ==
    IF i > Len(seq) THEN <<>>
    ELSE (IF i \in keep THEN <<seq[i]>> ELSE <<>>) \o Pick(seq, keep, i + 1)

\* the management listeners whose address is held neither by an input
\* listener nor by an earlier management listener
NonOverlapping(listeners, mgmt) ==
    { i \in DOMAIN mgmt :
        /\ \A j \in DOMAIN listeners : Address(listeners[j]) # Address(mgmt[i])
        /\ \A j \in 1..(i - 1) : Address(mgmt[j]) # Address(mgmt[i]) }

\* C18: generateManagementListeners returns the input listeners in their
\* order, followed by the management listeners whose address no listener
\* already in the list (a service listener or a management listener
\* appended before) holds; a management listener that collides is dropped.
C18_ManagementListenersDoNotOverlap ==
    call.fn = "generateManagementListeners"
    => /\ IsPrefix(call.listeners, call.result)
       /\ \A i \in (Len(call.listeners) + 1)..Len(call.result) :
             \A j \in 1..(i - 1) : Address(call.result[j]) # Address(call.result[i])
       /\ (~call.node.hasCustomIngressListeners /\ ~call.node.noneMode)
             => call.result = call.listeners
                   \o Pick(call.mgmtListeners,
                           NonOverlapping(call.listeners, call.mgmtListeners), 1)

\* one management listener collided with a service listener, one with a
\* management listener appended before it, and one was appended
C18_Witness ==
    /\ call.fn = "generateManagementListeners"
    /\ Len(call.result) > Len(call.listeners)
    /\ \E i \in DOMAIN call.mgmtListeners, j \in DOMAIN call.listeners :
          Address(call.mgmtListeners[i]) = Address(call.listeners[j])
    /\ \E i, j \in DOMAIN call.mgmtListeners :
          /\ j < i
          /\ Address(call.mgmtListeners[i]) = Address(call.mgmtListeners[j])
          /\ \A k \in DOMAIN call.listeners :
                Address(call.listeners[k]) # Address(call.mgmtListeners[i])

IsLoopback(a) == a \in {LocalhostAddress, LocalhostIPv6Address}

\* C19: getActualWildcardAndLocalHost returns the IPv4 wildcard and
\* localhost exactly when some address of the proxy parses as IPv4 and is
\* not the loopback address; in every other case (only IPv6 addresses,
\* only the IPv4 loopback, nothing that parses, no address) it returns the
\* IPv6 pair.
C19_IPv4OnlyForNonLoopback ==
    call.fn = "getActualWildcardAndLocalHost"
    => call.result =
          IF \E i \in DOMAIN call.ips :
                AddrForm(call.ips[i]).ip = "v4" /\ ~IsLoopback(call.ips[i])
          THEN <<WildcardAddress, LocalhostAddress>>
          ELSE <<WildcardIPv6Address, LocalhostIPv6Address>>

\* C20: Service.Validate returns an error for a service with more than one
\* port of which two have the same name, for an empty hostname, for a
\* hostname with an invalid label, for an empty port list and for a port
\* number out of range.
C20_ValidateRejectsDuplicatePortNames ==
    call.fn = "Service.Validate"
    => LET svc == call.service
       IN (\/ \E i, j \in DOMAIN svc.Ports : i # j /\ svc.Ports[i].Name = svc.Ports[j].Name
           \/ svc.Hostname = ""
           \/ \E i \in DOMAIN HostnameParts(svc.Hostname) :
                 ~IsDNS1123Label(HostnameParts(svc.Hostname)[i])
           \/ svc.Ports = <<>>
           \/ \E i \in DOMAIN svc.Ports : ~ValidatePort(svc.Ports[i].Port))
          => call.result # <<>>

\* the step calls fn
FnStep == Len(fnCalls') > Len(fnCalls)

\* the step calls fn with the debounced request
DebouncedPushStep == pushCounter' = pushCounter + 1

\* the step takes a request from the channel
ReceiveStep == Len(pushChannel') < Len(pushChannel)

\* the greatest element of a non-empty sequence of numbers
Latest(times) == CHOOSE t \in Range(times) : \A u \in Range(times) : u <= t

\* C21: fn is called only when at least DebounceAfter has elapsed since the
\* last event was received.
C21_PushOnlyAfterQuietTime ==
    [][ FnStep => (/\ ~ReceiveStep
                   /\ pending # <<>>
                   /\ now - Latest(pending) >= DebounceAfter) ]_vars

\* C22: when fn is called with the debounced request, every event merged
\* into it was received at most DebounceMax earlier.
C22_PushWithinMaxDelay ==
    [][ DebouncedPushStep => \A i \in DOMAIN pending : now - pending[i] <= DebounceMax ]_vars

\* the goroutine i takes the step
Mover(i) == pushers'[i] # pushers[i]

\* C23: a full Push whose InitContext or updateServiceShards fails ends
\* there: it changes neither Env.PushContext nor the version nor the
\* version counter and starts no AdsPushAll; only a full Push that passed
\* both replaces Env.PushContext and the version; a Push that is not full
\* replaces neither.
C23_FailedPushKeepsPreviousVersion ==
    [][ \A i \in DOMAIN pushers :
          Mover(i) =>
            /\ (PushContext' # PushContext \/ version' # version \/ versionNum' # versionNum)
                  => (pushers[i].req.Full /\ pushers[i].passed /\ ~pushers[i].failed)
            /\ Len(adsPushes') > Len(adsPushes)
                  => (~pushers[i].req.Full \/ (pushers[i].passed /\ ~pushers[i].failed))
            /\ pushers'[i].failed
                  => /\ pushers'[i].pc = "done"
                     /\ UNCHANGED << PushContext, version, versionNum, adsPushes >>
                     /\ \A k \in DOMAIN adsPushes : adsPushes[k].by # i ]_vars

\* one full Push failed in updateServiceShards and another one replaced the
\* push context and the version
C23_Witness ==
    \E i, j \in DOMAIN pushers :
        /\ pushers[i].failed
        /\ pushers[i].pc = "done"
        /\ pushers[j].passed
        /\ pushers[j].pc = "done"
        /\ PushContext = j
        /\ version = pushers[j].versionLocal
        /\ \E k \in DOMAIN adsPushes : adsPushes[k].by = j

\* C24: for a proxy in interception mode NONE without custom ingress
\* listeners buildSidecarInboundListeners returns no listener, whatever
\* service instances the proxy has; generateManagementListeners adds no
\* management listener for a proxy in NONE mode or with custom ingress
\* listeners.
C24_NoneModeHasNoInboundListeners ==
    /\ (call.fn = "buildSidecarInboundListeners" /\ call.node.noneMode)
          => call.result = <<>>
    /\ (/\ call.fn = "generateManagementListeners"
        /\ call.node.noneMode \/ call.node.hasCustomIngressListeners)
          => call.result = call.listeners

\* a proxy in NONE mode with two service instances a listener could be built for
C24_Witness ==
    /\ call.fn = "buildSidecarInboundListeners"
    /\ call.node.noneMode
    /\ Len(call.instances) >= 2
    /\ buildSidecarInboundListeners([call.node EXCEPT !.noneMode = FALSE], env,
                                    call.instances).ls # <<>>

\* C25: an HTTP unit that arrives on an unlocked key held by an HTTP entry
\* changes the contributing services of that entry and nothing else in
\* the registry: the listener of the entry, its chains included, is the
\* one it was, and no entry is added.
C25_HTTPMergeKeepsListener ==
    [][ MergeStep("HTTP")
        => (/\ DOMAIN listenerMap' = DOMAIN listenerMap
            /\ listenerMap'[last'.key].listener = listenerMap[last'.key].listener
            /\ [listenerMap'[last'.key] EXCEPT !.services = listenerMap[last'.key].services]
                  = listenerMap[last'.key]
            /\ listenerMap'[last'.key].services # listenerMap[last'.key].services
            /\ \A k \in DOMAIN listenerMap \ {last'.key} : listenerMap'[k] = listenerMap[k]) ]_vars

\* an HTTP unit was merged into an HTTP entry whose listener has its chain
\* with the HTTP connection manager
C25_Witness ==
    /\ Merged("HTTP")
    /\ last.host \in Range(listenerMap[last.key].services)
    /\ \E i \in DOMAIN listenerMap[last.key].listener.FilterChains :
          \E f \in Range(listenerMap[last.key].listener.FilterChains[i].Filters) :
             f.name = "envoy.http_connection_manager"

\* C26: in every assembled chain the filters are the raw network filters
\* of the chain, then the network filters of the plugins, then, in an HTTP
\* chain, the HTTP connection manager (the filters a user filter of the
\* workload inserts left aside).
C26_RawThenPluginThenHTTP ==
    (call.fn = "buildCompleteFilterChain" /\ ~call.result.err)
    => \A i \in DOMAIN call.opts.filterChainOpts :
          SelectSeq(call.result.l.FilterChains[i].Filters, IsNotUserFilter) =
             call.opts.filterChainOpts[i].networkFilters \o call.pluginTCP
                \o (IF call.opts.filterChainOpts[i].httpOpts
                    THEN <<HTTPConnectionManager(call.opts.filterChainOpts[i].rds)>>
                    ELSE <<>>)

\* C26, amended: in an assembled chain that is not HTTP the filters are the
\* raw network filters but the last, then the network filters of the
\* plugins, then the last raw network filter; in an HTTP chain they are
\* the network filters of the plugins, then the HTTP connection manager.
\* The filters a user filter of the workload inserts are left aside, and
\* without user filters the chain holds nothing else.
C26_PluginsBeforeTerminatingFilter ==
    (call.fn = "buildCompleteFilterChain" /\ ~call.result.err)
    => \A i \in DOMAIN call.opts.filterChainOpts :
          LET opt == call.opts.filterChainOpts[i]
              all == call.result.l.FilterChains[i].Filters
              fs == SelectSeq(all, IsNotUserFilter)
              nraw == Len(opt.networkFilters)
              nplug == Len(call.pluginTCP)
          IN /\ (call.opts.skipUserFilters \/ call.userFilters = <<>>) => all = fs
             /\ IF opt.httpOpts
                THEN /\ Len(fs) = nplug + 1
                     /\ \A j \in 1..nplug : fs[j] = call.pluginTCP[j]
                     /\ fs[Len(fs)].name = "envoy.http_connection_manager"
                ELSE /\ Len(fs) = nraw + nplug
                     /\ \A j \in 1..(nraw - 1) : fs[j] = opt.networkFilters[j]
                     /\ \A j \in 1..nplug :
                           fs[(IF nraw > 0 THEN nraw - 1 ELSE 0) + j] = call.pluginTCP[j]
                     /\ nraw > 0 => fs[Len(fs)] = opt.networkFilters[nraw]

\* a chain with two raw network filters and an HTTP chain were assembled
\* with a filter of a plugin
C26_Witness ==
    /\ call.fn = "buildCompleteFilterChain"
    /\ ~call.result.err
    /\ call.pluginTCP # <<>>
    /\ \E i \in DOMAIN call.opts.filterChainOpts :
          Len(call.opts.filterChainOpts[i].networkFilters) = 2
    /\ \E i \in DOMAIN call.opts.filterChainOpts : call.opts.filterChainOpts[i].httpOpts

\* C27: processing one outbound unit changes at most the registry entry
\* under the key of the unit: every other entry (listener, contributing
\* services, lock) is what it was, and no entry appears under another key,
\* whether the unit is created, merged, rejected or skipped.
C27_UnitTouchesOnlyItsKey ==
    [][ last'.op = "unit"
        => (/\ DOMAIN listenerMap \subseteq DOMAIN listenerMap'
            /\ DOMAIN listenerMap' \subseteq DOMAIN listenerMap \cup {last'.key}
            /\ \A k \in DOMAIN listenerMap \ {last'.key} :
                  listenerMap'[k] = listenerMap[k]) ]_vars

\* a unit was processed beside a locked entry under another key
C27_Witness ==
    /\ last.op = "unit"
    /\ \E k \in DOMAIN listenerMap : k # last.key /\ listenerMap[k].locked
    /\ last.key \in DOMAIN listenerMap

\* C28: in every outbound listener of the registry that holds the
\* pass-through chain, that chain is the last chain of the listener, also
\* after TCP units were merged into the key of the listener.
C28_PassthroughChainIsLast ==
    \A k \in DOMAIN listenerMap :
        \A i \in PassthroughChains(listenerMap[k].listener) :
            i = Len(listenerMap[k].listener.FilterChains)

\* C29: in the listener buildListener returns, no two listener filters have
\* the same name, and the TLS inspector is there exactly once whenever a
\* chain has SNI hosts or a TLS context with ALPN protocols.
C29_ListenerFiltersAreDistinct ==
    call.fn = "buildListener"
    => LET lf == call.result.ListenerFilters
           chains == call.opts.filterChainOpts
       IN /\ \A i, j \in DOMAIN lf : lf[i] = lf[j] => i = j
          /\ (\E c \in DOMAIN chains : Len(chains[c].sniHosts) > 0 \/ chains[c].alpn)
                => Cardinality({ i \in DOMAIN lf :
                                   lf[i] = "envoy.listener.tls_inspector" }) = 1

\* two chains bring the TLS inspector of their own, one of them with ALPN
\* protocols, and another listener filter is named twice
C29_Witness ==
    /\ call.fn = "buildListener"
    /\ \E c, d \in DOMAIN call.opts.filterChainOpts :
          /\ c # d
          /\ call.opts.filterChainOpts[c].alpn
          /\ "envoy.listener.tls_inspector"
                \in Range(call.opts.filterChainOpts[c].listenerFilters)
          /\ call.opts.filterChainOpts[d].listenerFilters
                = <<"envoy.listener.original_dst", "envoy.listener.tls_inspector">>
    /\ Len(call.result.ListenerFilters) = 2

\* a destination CIDR buildListener turns into a prefix range
UsablePrefix(d) ==
    /\ d # ""
    /\ ConvertAddressToCidr(d) # NoCidr
    /\ ConvertAddressToCidr(d).AddressPrefix # UnspecifiedIP

\* C30: buildListener gives a chain an absent match exactly when the chain
\* has no explicit match, its SNI host list is empty or holds the host "*",
\* and none of its destination CIDRs yields a usable prefix.
C30_NilMatchIffNothingToMatch ==
    call.fn = "buildListener"
    => \A i \in DOMAIN call.opts.filterChainOpts :
          LET chain == call.opts.filterChainOpts[i]
          IN call.result.FilterChains[i].FilterChainMatch.isNil
             <=> (/\ chain.match.isNil
                  /\ (chain.sniHosts = <<>> \/ "*" \in Range(chain.sniHosts))
                  /\ \A d \in Range(chain.destinationCIDRs) : ~UsablePrefix(d))

\* a chain with the host "*" among its SNI hosts and a chain with unusable
\* destination CIDRs got an absent match, a chain with an explicit empty
\* match kept it
C30_Witness ==
    /\ call.fn = "buildListener"
    /\ \E i, j, k \in DOMAIN call.opts.filterChainOpts :
          /\ "*" \in Range(call.opts.filterChainOpts[i].sniHosts)
          /\ call.result.FilterChains[i].FilterChainMatch.isNil
          /\ call.opts.filterChainOpts[j].destinationCIDRs # <<>>
          /\ call.result.FilterChains[j].FilterChainMatch.isNil
          /\ ~call.opts.filterChainOpts[k].match.isNil
          /\ call.result.FilterChains[k].FilterChainMatch = EmptyMatch

\* the timer is set to a time the clock of the model does not reach
BeyondHorizon == timeChan.armed /\ timeChan.at > MaxTime

\* C31: a request debounce receives on the debounced path is merged into
\* the pending request and counted; the next push hands the pending
\* request to fn and resets the pending request and the event counter, so
\* that the pending request always stands for exactly the requests received
\* since the last push; and while the timer keeps firing and stop is not
\* signalled, a pending request is eventually pushed.
C31_DebouncedRequestPushedOnce ==
    /\ [][ /\ (ReceiveStep /\ ~FnStep)
               => (/\ ~req'.isNil
                   /\ req'.Full = (req.Full \/ Head(pushChannel).Full)
                   /\ debouncedEvents' = debouncedEvents + 1
                   /\ Len(pending') = Len(pending) + 1)
           /\ DebouncedPushStep
               => (/\ ~req.isNil
                   /\ fnCalls' = Append(fnCalls, [req |-> req, at |-> now])
                   /\ req' = NoRequest
                   /\ debouncedEvents' = 0
                   /\ pending' = <<>>)
           /\ ~(ReceiveStep \/ DebouncedPushStep) => UNCHANGED << req, debouncedEvents >>
           /\ debouncedEvents' = Len(pending')
           /\ req'.isNil <=> pending' = <<>> ]_vars
    /\ (pending # <<>>) ~> (pending = <<>> \/ stopped \/ BeyondHorizon)

\* two requests, one of them full, were merged and pushed by one call of
\* fn, and a request received after it is pending
C31_Witness ==
    /\ pushCounter = 1
    /\ \E i \in DOMAIN fnCalls : fnCalls[i].req = PushRequest(TRUE)
    /\ sent = 3
    /\ pushChannel = <<>>
    /\ debouncedEvents = 1
    /\ req = PushRequest(FALSE)
    /\ enableEDSDebounce

\* the pushes doSendPushes dispatched whose slot was not released
InFlight == { i \in DOMAIN senders : senders[i].released = 0 }

\* the slots are those of the pushes in flight and the one doSendPushes
\* holds while it waits for the queue; the slot of a push is released by
\* the goroutine that saw the stream closed or by the done function of the
\* event that was handed over, and by no more than one of them
SlotsAccounted ==
    /\ Cardinality(InFlight) <= PushThrottle
    /\ semaphore = Cardinality(InFlight) + (IF sendPushes = "dequeue" THEN 1 ELSE 0)
    /\ \A i \in DOMAIN senders :
          /\ senders[i].released <= 1
          /\ senders[i].released = 1 <=> senders[i].pc \in {"done", "closed"}

\* a step that releases a slot is the step in which the goroutine of a push
\* sees the stream of its client closed, or the call of the done function
\* of an event that was handed over, and it releases the slot of that push
ReleaseStep(i) ==
    /\ senders'[i].released = senders[i].released + 1
    /\ semaphore' = semaphore - 1
    /\ \/ senders[i].pc = "send" /\ senders'[i].pc = "closed" /\ senders[i].client \in closed
       \/ senders[i].pc = "handed" /\ senders'[i].pc = "done"
    /\ \A j \in DOMAIN senders \ {i} : senders'[j] = senders[j]

\* C32: the pushes dispatched by doSendPushes and not yet done never
\* outnumber the capacity of the semaphore, and the slot of every push that
\* was dispatched is released exactly once: never twice, only by the
\* goroutine that sees the stream closed before the hand-over, in that very
\* step, or by the done function of the event after the hand-over, and in
\* the end by one of the two.
C32_SlotsReleasedOnce ==
    /\ []SlotsAccounted
    /\ [][ /\ semaphore' < semaphore => \E i \in DOMAIN senders : ReleaseStep(i)
           /\ \A i \in DOMAIN senders :
                 senders'[i].released # senders[i].released => ReleaseStep(i) ]_vars
    /\ \A i \in 1..MaxQueued :
          (i \in DOMAIN senders) ~> (i \in DOMAIN senders /\ senders[i].released = 1)

\* more pushes were dispatched than the semaphore holds; the slot of one
\* was released by the done function of its client and the slot of another
\* by the goroutine that saw the stream closed
C32_Witness ==
    /\ Len(senders) > PushThrottle
    /\ \E i, j \in DOMAIN senders :
          /\ senders[i].pc = "done"
          /\ senders[i].released = 1
          /\ senders[j].pc = "closed"
          /\ senders[j].released = 1

\* the calls of checkProxyNeedsFullPush for client c that found the mark
TrueReturns(c) == { i \in DOMAIN senders : senders[i].client = c /\ senders[i].full }

\* C33: checkProxyNeedsFullPush consumes the mark: a call finds the proxy
\* marked exactly in a step that removes it from proxyUpdates, no two calls
\* find the same mark, a call that tests an unmarked proxy changes nothing,
\* a call that tests a marked proxy is the one that removes the mark, and
\* the call returns what it found.
C33_MarkConsumedOnce ==
    [][ /\ \A c \in {"10.0.0.1", "10.9.9.9"} :
              /\ Cardinality(TrueReturns(c)') <= Cardinality(TrueReturns(c)) + 1
              /\ TrueReturns(c)' # TrueReturns(c) <=> (c \in proxyUpdates /\ c \notin proxyUpdates')
        /\ \A i \in DOMAIN senders :
              /\ (senders[i].pc = "test" /\ senders'[i].pc = "unlock")
                    => (senders[i].client \notin proxyUpdates /\ UNCHANGED proxyUpdates)
              /\ (senders[i].pc = "test" /\ senders'[i].pc = "delete")
                    => senders[i].client \in proxyUpdates
              /\ senders'[i].pc = "delete" => senders'[i].client \in proxyUpdates'
              /\ (~senders[i].called /\ senders'[i].called)
                    => senders'[i].proxyFull = senders[i].full ]_vars

\* two calls for one proxy ran after it was marked: one returned true and
\* the other false
C33_Witness ==
    \E i, j \in DOMAIN senders :
        /\ senders[i].client = senders[j].client
        /\ senders[i].called /\ senders[i].proxyFull
        /\ senders[j].called /\ ~senders[j].proxyFull
        /\ senders[j].pc = "send"
        /\ senders[i].pc = "send"
        /\ senders[i].client \notin proxyUpdates

\* C37: after stopCh is closed, handleUpdates, periodicRefresh,
\* periodicRefreshMetrics and sendPushes all return.
C37_GoroutinesReturnAfterStop ==
    stopCh ~> (/\ sendPushes = "returned"
               /\ returned = {"handleUpdates", "periodicRefresh", "periodicRefreshMetrics"})

\* C34: a TCP unit merged into an unlocked TCP entry bound to the wildcard
\* address, the chains of whose service all have a match that differs from
\* the match of every chain of the entry, adds no conflict event.
C34_DistinctMatchMergesSilently ==
    [][ (/\ MergeStep("TCP")
         /\ listenerMap[last'.key].bind = actualWildcard(node)
         /\ \A m \in OwnMatches(rule, ServiceOf(last'.host), last'.port, node) :
               ~IdenticalMatchIn(m, listenerMap[last'.key].listener.FilterChains))
        => push' = push ]_vars

\* C35: no entry of the registry lists a contributing service twice.
C35_ServicesListedOnce ==
    \A k \in DOMAIN listenerMap :
        \A i, j \in DOMAIN listenerMap[k].services :
            listenerMap[k].services[i] = listenerMap[k].services[j] => i = j

\* C36: for a proxy whose sidecar UID is not "0", no listener returned by
\* buildSidecarOutboundListeners binds to a port of 1024 or lower.
C36_NoPrivilegedBindWithoutRoot ==
    node.sidecarUID # "0"
    => \A i \in DOMAIN out : ~(out[i].bindToPort /\ out[i].port <= PrivilegedPortMax)

====
